---- MODULE Spec2Model ----
(***************************************************************************)
(* JungleDB: the generic transactional engine.                             *)
(*                                                                         *)
(*  - CombinedTransaction (constructor, isConsistent, commit, abort,       *)
(*    onFlushable) and JungleDB.commitCombined are translated from         *)
(*    src/src/main/generic/CombinedTransaction.js and                      *)
(*    src/src/main/backend/lmdb/JungleDB.js.                               *)
(*  - ObjectStore and Transaction are not part of the available sources;   *)
(*    their behaviour is modelled from the specification (sections 3, 4.6, *)
(*    4.7, 5) and from the calls CombinedTransaction makes on them.        *)
(***************************************************************************)
EXTENDS Integers, Sequences, FiniteSets, TLC

\* ------------------------------------------------------------------ bounds
MaxTx == 3            \* transactions created in one behaviour
MaxCtorArgs == 3      \* longest argument list handed to the constructor
MaxFlushRuns == 2     \* combined flushes started in one behaviour
MaxTxOps == 3         \* writes made through one transaction on the indexed store
MaxJobs == 3          \* functions pushed to the Synchronizer in one behaviour
MaxDeletes == 2       \* deleteObjectStore calls on one JungleDB instance
MaxConnects == 2      \* connections made one after the other to one database
MaxIxCalls == 2       \* direct put / remove calls on one PersistentIndex

\* ------------------------------------------------------------- value sets
Keys == {1}
Vals == {1, 2}
Absent == 0           \* "undefined": no value stored under the key
None == 0 - 1         \* the key is not in a transaction's _modified map
NoTx == 0             \* parent = the ObjectStore (its backend) itself

TxIds == 1..MaxTx
AllStores == {1, 2, 3, 4}
MainStores == {1, 2}

\* ObjectStore.jungleDB: store 2 is a volatile store (jungleDB === null).
JungleDBOf(s) == CASE s = 1 -> "db1" [] s = 2 -> "null" [] s = 3 -> "db2" [] OTHER -> "db1"

VARIABLES
    backend,        \* store -> [Keys -> Vals \cup {Absent}], the backend's contents
    stack,          \* store -> sequence of committed, not yet flushed transactions
    state,          \* tx -> Transaction.STATE, "NONE" before the transaction exists
    txStore,        \* tx -> its ObjectStore
    parent,         \* tx -> NoTx (the store) or the transaction it reads through
    modified,       \* tx -> [Keys -> Vals \cup {None}]        (_modified)
    removed,        \* tx -> SUBSET Keys                        (_removed)
    nested,         \* tx -> BOOLEAN                            (_nested)
    dependency,     \* tx -> BOOLEAN: _dependency is a CombinedTransaction
    commitRet,      \* tx -> what Transaction.commit() returned: "none", "true", "false"
    ctxTxs,         \* CombinedTransaction._transactions, << >> while none exists
    flushable,      \* CombinedTransaction._flushable (its keys)
    flushLog,       \* what onFlushable and the combined flush did, in order
    runs,           \* the flushes onFlushable has started: records [pc, owner]
    ctxResult,      \* outcome of commitCombined / CombinedTransaction.commit
    ctorArgs,       \* arguments of the last CombinedTransaction construction
    ctorResult,     \* "none", "ok" or "threw"
    snap,           \* history: tx -> the view the transaction had when it was created
    base,           \* history: tx -> the last committed transaction when it was created
    lastCommitted,  \* history: store -> the transaction committed last (NoTx: none)
    committedView,  \* history: store -> the view the last committed transaction produced
    lastWrite,      \* history: tx -> key -> last write (None: none, Absent: remove)
    nestSave,       \* history: tx -> its buffer when its child was opened
    writeRet,       \* tx -> "threw" once a put / remove on it was rejected, else "none"
    ixCfg,          \* the index descriptor: [unique, multiEntry]
    ixData,         \* the indexed store's backend: PKeys -> IxVals \cup {Absent}
    ixIndex,        \* the PersistentIndex: secondary key -> its primary keys
    ixTx,           \* the transaction on the indexed store
    ixRet,          \* outcome of the last operation on the indexed store
    ixQ,            \* the last query put to the index and its answers
    scStore,        \* the scanned store's ordered map: its entries <<key, value>>
    scResult,       \* the last scan of the store and its answer
    sync,           \* a Synchronizer, its jobs and the promises push returned
    jungle,         \* a JungleDB instance, its lmdb environment and its connect call
    fill            \* the connections of a program that declares an index on a filled store

progVars == <<backend, stack, state, txStore, parent, modified, removed, nested,
              dependency, commitRet, ctxTxs, flushable, runs, ctxResult,
              ctorArgs, ctorResult, flushLog>>
histVars == <<snap, base, lastCommitted, committedView, lastWrite>>
\* The variables of the nested transactions and of the indexed store.
nestVars == <<nestSave, writeRet>>
ixVars == <<ixCfg, ixData, ixIndex, ixTx, ixRet, ixQ>>
scVars == <<scStore, scResult>>
syVars == <<sync>>
dbVars == <<jungle>>
fillVars == <<fill>>
extVars == <<nestVars, ixVars, scVars, syVars, dbVars, fillVars>>
\* What the actions of one group leave alone.
restOfNest == <<ixVars, scVars, syVars, dbVars, fillVars>>
restOfIx == <<progVars, histVars, nestVars, scVars, syVars, dbVars, fillVars>>
restOfSc == <<progVars, histVars, nestVars, ixVars, syVars, dbVars, fillVars>>
restOfSy == <<progVars, histVars, nestVars, ixVars, scVars, dbVars, fillVars>>
restOfDb == <<progVars, histVars, nestVars, ixVars, scVars, syVars, fillVars>>
restOfFill == <<progVars, histVars, nestVars, ixTx, ixRet, ixQ, scVars, syVars, dbVars>>
vars == <<progVars, histVars, extVars>>

\* The mutable world the store and coordinator operations transform.
World == [backend |-> backend, stack |-> stack, state |-> state, parent |-> parent,
          modified |-> modified, removed |-> removed, txStore |-> txStore,
          nested |-> nested, dependency |-> dependency, ctxTxs |-> ctxTxs,
          flushable |-> flushable, runs |-> runs, log |-> flushLog]

Range(seq) == {seq[i] : i \in 1..Len(seq)}

EmptyMod == [k \in Keys |-> None]
EmptyStore == [k \in Keys |-> Absent]

\* ------------------------------------------------------------ Transaction
\* Transaction.get: removed, then modified, then fall through to the parent.
RECURSIVE TxGet(_, _, _)
TxGet(w, t, k) ==
    IF k \in w.removed[t] THEN Absent
    ELSE IF w.modified[t][k] # None THEN w.modified[t][k]
    ELSE IF w.parent[t] = NoTx THEN w.backend[w.txStore[t]][k]
    ELSE TxGet(w, w.parent[t], k)

TxView(w, t) == [k \in Keys |-> TxGet(w, t, k)]

\* A put that forgets to withdraw an earlier remove of the key.
TxPutKeepRemoved(w, t, k, v) == [w EXCEPT !.modified[t][k] = v]

\* Transaction.put on the transaction's buffer.
TxPut(w, t, k, v) ==
    [w EXCEPT !.modified[t][k] = v, !.removed[t] = @ \ {k}]

\* A remove that leaves an earlier put of the key in the buffer.
TxRemoveKeepModified(w, t, k) == [w EXCEPT !.removed[t] = @ \cup {k}]

\* Transaction.remove on the transaction's buffer.
TxRemove(w, t, k) ==
    [w EXCEPT !.modified[t][k] = None, !.removed[t] = @ \cup {k}]

\* ------------------------------------------------------------ ObjectStore
\* The current committed state: the top of the stack, or the backend.
StoreHead(w, s) ==
    IF w.stack[s] = << >> THEN NoTx ELSE w.stack[s][Len(w.stack[s])]

\* ObjectStore.get: read on the current committed state.
StoreGet(w, s, k) ==
    IF StoreHead(w, s) = NoTx THEN w.backend[s][k] ELSE TxGet(w, StoreHead(w, s), k)

StoreView(w, s) == [k \in Keys |-> StoreGet(w, s, k)]

\* A backend apply that writes the puts and forgets the removes.
ApplyDeltaPutsOnly(w, t) ==
    [k \in Keys |->
        IF w.modified[t][k] # None THEN w.modified[t][k]
        ELSE w.backend[w.txStore[t]][k]]

\* Backend apply of one transaction's deltas (applyCombined / applySync).
ApplyDelta(w, t) ==
    [k \in Keys |->
        IF k \in w.removed[t] THEN Absent
        ELSE IF w.modified[t][k] # None THEN w.modified[t][k]
        ELSE w.backend[w.txStore[t]][k]]

\* Transactions still reading the backend state of store s.
OpenReaders(w, s) ==
    {t \in TxIds : /\ w.state[t] \in {"OPEN", "NESTED"}
                   /\ w.txStore[t] = s
                   /\ w.parent[t] = NoTx
                   /\ t \notin Range(w.stack[s])}

\* A store that flushes without looking at the readers of the backend state.
IsFlushableAlways(w, s) == TRUE

\* The bottom of the stack may be flushed when nothing reads the backend state.
IsFlushable(w, s) == OpenReaders(w, s) = {}

\* Drop the bottom transaction of the stack: it is FLUSHED and its children
\* are reparented to the store.
PruneBottom(w, s) ==
    LET t == Head(w.stack[s]) IN
    [w EXCEPT !.stack[s] = Tail(@),
              !.state[t] = "FLUSHED",
              !.parent = [c \in TxIds |-> IF @[c] = t THEN NoTx ELSE @[c]]]

\* A flush that takes the transaction committed last, from the top of the stack.
FlushTop(w, s) ==
    LET t == w.stack[s][Len(w.stack[s])] IN
    [w EXCEPT !.backend[s] = ApplyDelta(w, t),
              !.stack[s] = SubSeq(@, 1, Len(@) - 1),
              !.state[t] = "FLUSHED",
              !.parent = [c \in TxIds |-> IF @[c] = t THEN NoTx ELSE @[c]]]

\* Write the bottom transaction into the backend and drop it from the stack.
FlushBottom(w, s) ==
    LET t == Head(w.stack[s]) IN
    PruneBottom([w EXCEPT !.backend[s] = ApplyDelta(w, t)], s)

\* ---------------------------------------------------- CombinedTransaction
\* onFlushable: register tx; when every participant is registered, start the
\* combined flush (the preprocessing hooks are invoked, then awaited).
\* A flush that starts as soon as one participant is flushable.
AnyFlushable(txs, fl) == \E i \in 1..Len(txs) : txs[i] \in fl

\* this._transactions.every(tx => this._flushable.has(tx))
AllFlushable(txs, fl) == \A i \in 1..Len(txs) : txs[i] \in fl

\* One entry of the log: what was done and for which transaction.
Event(ev, t) == [ev |-> ev, tx |-> t]

OnFlushable(w, t, owner) ==
    LET fl == w.flushable \cup {t} IN
    IF AllFlushable(w.ctxTxs, fl) /\ Len(w.runs) < MaxFlushRuns
    THEN [w EXCEPT !.flushable = fl,
                   !.runs = Append(@, [pc |-> "pre", owner |-> owner]),
                   !.log = Append(@, Event("preprocessing", t))]
    ELSE [w EXCEPT !.flushable = fl,
                   !.log = Append(@, Event("false", t))]

\* ObjectStore: flush the committed chain as far as possible. A transaction
\* with a dependency is reported to its CombinedTransaction instead, once.
RECURSIVE FlattenState(_, _, _)
FlattenState(w, s, owner) ==
    IF w.stack[s] = << >> \/ ~IsFlushable(w, s) THEN w
    ELSE IF w.dependency[Head(w.stack[s])]
         THEN IF Head(w.stack[s]) \in w.flushable THEN w
              ELSE OnFlushable(w, Head(w.stack[s]), owner)
    ELSE FlattenState(FlushBottom(w, s), s, owner)

\* A store that lets every open transaction commit.
IsCommittableOpen(w, t) == w.state[t] = "OPEN"

\* ObjectStore._isCommittable(tx): no other child of tx's parent state committed.
IsCommittable(w, t) ==
    w.state[t] = "OPEN" /\ w.parent[t] = StoreHead(w, w.txStore[t])

\* ObjectStore.commit(tx) of a committable transaction: tx is the new head.
CommitLocal(w, t) ==
    FlattenState([w EXCEPT !.stack[w.txStore[t]] = Append(@, t)], w.txStore[t], t)

\* Transaction._abortBackend.
TxAbortBackend(w, t) ==
    IF w.state[t] # "OPEN" THEN w
    ELSE FlattenState([w EXCEPT !.state[t] = "ABORTED",
                                !.modified[t] = EmptyMod,
                                !.removed[t] = {}],
                      w.txStore[t], NoTx)


\* Rule 3 without the exemption of in-memory stores.
JdbMismatchStrict(jdb, sdb) == jdb # "null" /\ jdb # sdb

\* CombinedTransaction.isConsistent, rule 3: this._jdb is set and differs from
\* the store's JungleDB, and the store is not an in-memory store (null).
JdbMismatch(jdb, sdb) == jdb # "null" /\ jdb # sdb /\ sdb # "null"

\* CombinedTransaction.isConsistent: the loop over the transactions, with
\* this._jdb and the set objectStores as loop state.
RECURSIVE IsConsistentFrom(_, _, _, _, _)
IsConsistentFrom(w, txs, i, jdb, objectStores) ==
    IF i > Len(txs) THEN TRUE
    ELSE IF w.state[txs[i]] # "OPEN" THEN FALSE
    ELSE IF w.nested[txs[i]] THEN FALSE
    ELSE IF w.txStore[txs[i]] \in objectStores THEN FALSE
    ELSE IF JdbMismatch(jdb, JungleDBOf(w.txStore[txs[i]])) THEN FALSE
    ELSE IsConsistentFrom(w, txs, i + 1,
                          IF jdb = "null" THEN JungleDBOf(w.txStore[txs[i]]) ELSE jdb,
                          objectStores \cup {w.txStore[txs[i]]})

\* A check that holds every store's database against that of the first
\* transaction only.
IsConsistentFirstDb(w, txs) ==
    /\ \A i \in 1..Len(txs) : w.state[txs[i]] = "OPEN" /\ ~w.nested[txs[i]]
    /\ \A i, j \in 1..Len(txs) : i # j => w.txStore[txs[i]] # w.txStore[txs[j]]
    /\ \A i \in 1..Len(txs) :
          JungleDBOf(w.txStore[txs[i]]) \in {JungleDBOf(w.txStore[txs[1]]), "null"}

\* CombinedTransaction.isConsistent(transactions).
IsConsistent(w, txs) == IsConsistentFrom(w, txs, 1, "null", {})

\* set _dependency(dependency): every transaction gets the dependency.
SetDependency(w, txs) ==
    [w EXCEPT !.dependency = [t \in TxIds |-> IF t \in Range(txs) THEN TRUE ELSE @[t]]]

\* CombinedTransaction._isCommittable: every participant is committable.
CtxIsCommittable(w, txs) == \A i \in 1..Len(txs) : IsCommittable(w, txs[i])

\* An abort that spares the participants that were committable.
CtxAbortOnlyUncommittable(w, txs) == SelectSeq(txs, LAMBDA t : ~IsCommittable(w, t))

\* CombinedTransaction._abortBackend: the transactions whose _abortBackend is called.
CtxAbortTargets(w, txs) == txs

RECURSIVE AbortAll(_, _, _)
AbortAll(w, txs, i) ==
    IF i > Len(txs) THEN w ELSE AbortAll(TxAbortBackend(w, txs[i]), txs, i + 1)

CtxAbortBackend(w, txs) == AbortAll(w, CtxAbortTargets(w, txs), 1)

\* CombinedTransaction._commitBackend: every participant's _commitBackend is
\* started, in order; each commits locally against its store.
RECURSIVE CommitAll(_, _, _)
CommitAll(w, txs, i) ==
    IF i > Len(txs) THEN w ELSE CommitAll(CommitLocal(w, txs[i]), txs, i + 1)

\* The transactions whose commit call is still awaiting a combined flush.
Awaiting(w) ==
    {w.runs[i].owner : i \in {j \in 1..Len(w.runs) : w.runs[j].pc \in {"pre", "write", "cb"}}}
        \ {NoTx}

\* A participant's _commitBackend sets COMMITTED once its store's commit returned.
SettleCommitted(w, txs) ==
    [w EXCEPT !.state = [t \in TxIds |->
        IF t \in Range(txs) /\ t \notin Awaiting(w) THEN "COMMITTED" ELSE @[t]]]

\* JungleDB.commitCombined(tx1, tx2, ...txs): txs.push(tx1); txs.push(tx2).
CtxOrder(args) == SubSeq(args, 3, Len(args)) \o <<args[1], args[2]>>


\* JungleDB.commitCombined(ctx): the deltas of every participant are written,
\* the persistent ones inside one backend write transaction, the in-memory
\* ones by the functions applyCombined returned.
Persistent(w, p) == JungleDBOf(w.txStore[p]) # "null"
LmdbTransactions(w) == SelectSeq(w.ctxTxs, LAMBDA p : Persistent(w, p))
Functions(w) == SelectSeq(w.ctxTxs, LAMBDA p : ~Persistent(w, p))

\* A write that opens and commits a backend transaction per participant.
CommitCombinedStepsPerStore(w) ==
    LET perStore(p) == IF Persistent(w, p)
                       THEN <<Event("beginTxn", NoTx), Event("applySync", p),
                              Event("txnCommit", NoTx)>>
                       ELSE <<Event("function", p)>>
        RECURSIVE all(_)
        all(i) == IF i > Len(w.ctxTxs) THEN << >> ELSE perStore(w.ctxTxs[i]) \o all(i + 1)
    IN all(1)

\* JungleDB.commitCombined(ctx), its steps in order: beginTxn, applySync of
\* every lmdb transaction, txn.commit(), then the functions.
CommitCombinedSteps(w) ==
    LET lmdb == LmdbTransactions(w)
        fns == Functions(w)
    IN (IF Len(lmdb) > 0
        THEN <<Event("beginTxn", NoTx)>>
                 \o [i \in 1..Len(lmdb) |-> Event("applySync", lmdb[i])]
                 \o <<Event("txnCommit", NoTx)>>
        ELSE << >>)
       \o [i \in 1..Len(fns) |-> Event("function", fns[i])]

CommitCombinedBackend(w) ==
    [s \in AllStores |->
        IF \E i \in 1..Len(w.ctxTxs) : w.txStore[w.ctxTxs[i]] = s
        THEN ApplyDelta(w, CHOOSE p \in Range(w.ctxTxs) : w.txStore[p] = s)
        ELSE w.backend[s]]

\* Only a write to a persistent backend (applySync, txn.commit) can fail.
HasPersistentParticipant(w) ==
    \E i \in 1..Len(w.ctxTxs) : JungleDBOf(w.txStore[w.ctxTxs[i]]) # "null"

\* The callback a store hands to onFlushable: prune the flushed transaction
\* from the stack and go on flushing.
StoreCallback(w, p) ==
    IF w.stack[w.txStore[p]] # << >> /\ Head(w.stack[w.txStore[p]]) = p
    THEN FlattenState(PruneBottom(w, w.txStore[p]), w.txStore[p], NoTx)
    ELSE w

\* onFlushable: for (const value of this._flushable.values()) value();
\* A loop that stops after the first callback.
RECURSIVE RunFirstCallback(_, _, _)
RunFirstCallback(w, txs, i) ==
    IF i > 1 THEN w
    ELSE RunFirstCallback(StoreCallback([w EXCEPT !.log = Append(@, Event("callback", txs[i]))],
                                        txs[i]), txs, i + 1)

RECURSIVE RunCallbacks(_, _, _)
RunCallbacks(w, txs, i) ==
    IF i > Len(txs) THEN w
    ELSE RunCallbacks(StoreCallback([w EXCEPT !.log = Append(@, Event("callback", txs[i]))],
                                    txs[i]), txs, i + 1)

\* ---------------------------------------------------------------- actions
SetWorld(w) ==
    /\ backend' = w.backend
    /\ stack' = w.stack
    /\ state' = w.state
    /\ parent' = w.parent
    /\ modified' = w.modified
    /\ removed' = w.removed
    /\ dependency' = w.dependency
    /\ ctxTxs' = w.ctxTxs
    /\ flushable' = w.flushable
    /\ runs' = w.runs
    /\ flushLog' = w.log

Unused == {t \in TxIds : state[t] = "NONE"}
FreshTx == CHOOSE t \in Unused : \A u \in Unused : t <= u

\* A store that roots every new transaction at the backend.
ParentForNewBackend(w, s) == NoTx

\* ObjectStore.transaction(): a new transaction on the current committed state.
ParentForNew(w, s) == StoreHead(w, s)

Begin(s) ==
    /\ Unused # {}
    /\ state' = [state EXCEPT ![FreshTx] = "OPEN"]
    /\ txStore' = [txStore EXCEPT ![FreshTx] = s]
    /\ parent' = [parent EXCEPT ![FreshTx] = ParentForNew(World, s)]
    /\ snap' = [snap EXCEPT ![FreshTx] = StoreView(World, s)]
    /\ base' = [base EXCEPT ![FreshTx] = lastCommitted[s]]
    /\ UNCHANGED <<backend, stack, modified, removed, nested, dependency, commitRet,
                   ctxTxs, flushable, runs, flushLog, ctxResult, ctorArgs, ctorResult,
                   lastCommitted, committedView, lastWrite>>
    /\ UNCHANGED extVars

\* Calls accepted without looking at the state of the transaction.
UsableWhenCreated(t) ==
    state[t] # "NONE" /\ ~dependency[t] /\ t \notin Range(stack[txStore[t]])

\* A transaction accepts user calls while it is open and not handed over to a
\* combined transaction or in the middle of its own commit.
Usable(t) ==
    state[t] = "OPEN" /\ ~dependency[t] /\ t \notin Range(stack[txStore[t]])

Put(t, k, v) ==
    /\ Usable(t)
    /\ SetWorld(TxPut(World, t, k, v))
    /\ lastWrite' = [lastWrite EXCEPT ![t][k] = v]
    /\ UNCHANGED <<txStore, nested, commitRet, ctxResult, ctorArgs, ctorResult,
                   snap, base, lastCommitted, committedView>>
    /\ UNCHANGED extVars

Remove(t, k) ==
    /\ Usable(t)
    /\ SetWorld(TxRemove(World, t, k))
    /\ lastWrite' = [lastWrite EXCEPT ![t][k] = Absent]
    /\ UNCHANGED <<txStore, nested, commitRet, ctxResult, ctorArgs, ctorResult,
                   snap, base, lastCommitted, committedView>>
    /\ UNCHANGED extVars

\* The observations about a transaction end with its life as an open transaction.
Live(st, sk, t) == st[t] \in {"OPEN", "NESTED"} /\ t \notin Range(sk[txStore[t]])

CloseHist ==
    /\ snap' = [t \in TxIds |-> IF Live(state', stack', t) THEN snap[t] ELSE EmptyStore]
    /\ lastWrite' = [t \in TxIds |-> IF Live(state', stack', t) THEN lastWrite[t] ELSE EmptyMod]

\* Transaction.commit() of a transaction without dependency.
CommitOk(t) ==
    /\ Usable(t)
    /\ IsCommittable(World, t)
    /\ LET w1 == CommitLocal(World, t)
           waits == t \in Awaiting(w1)
       IN /\ SetWorld(IF waits THEN w1 ELSE [w1 EXCEPT !.state[t] = "COMMITTED"])
          /\ commitRet' = [commitRet EXCEPT ![t] = IF waits THEN "pending" ELSE "true"]
    /\ lastCommitted' = [lastCommitted EXCEPT ![txStore[t]] = t]
    /\ committedView' = [committedView EXCEPT ![txStore[t]] = TxView(World, t)]
    /\ CloseHist
    /\ UNCHANGED <<txStore, nested, ctxResult, ctorArgs, ctorResult, base>>
    /\ UNCHANGED extVars

CommitConflict(t) ==
    /\ Usable(t)
    /\ ~IsCommittable(World, t)
    /\ SetWorld(FlattenState([World EXCEPT !.state[t] = "CONFLICTED"], txStore[t], NoTx))
    /\ commitRet' = [commitRet EXCEPT ![t] = "false"]
    /\ CloseHist
    /\ UNCHANGED <<txStore, nested, ctxResult, ctorArgs, ctorResult, base,
                   lastCommitted, committedView>>
    /\ UNCHANGED extVars

\* Transaction.abort().
Abort(t) ==
    /\ Usable(t)
    /\ SetWorld(TxAbortBackend(World, t))
    /\ CloseHist
    /\ UNCHANGED <<txStore, nested, commitRet, ctxResult, ctorArgs, ctorResult, base,
                   lastCommitted, committedView>>
    /\ UNCHANGED extVars

\* ------------------------------------------------------ nested transactions
\* Transaction.transaction(): a child of the open transaction p; p is NESTED.
BeginNested(p) ==
    /\ Usable(p)
    /\ Unused # {}
    /\ state' = [state EXCEPT ![p] = "NESTED", ![FreshTx] = "OPEN"]
    /\ txStore' = [txStore EXCEPT ![FreshTx] = txStore[p]]
    /\ parent' = [parent EXCEPT ![FreshTx] = p]
    /\ nested' = [nested EXCEPT ![FreshTx] = TRUE]
    /\ snap' = [snap EXCEPT ![FreshTx] = TxView(World, p)]
    /\ base' = [base EXCEPT ![FreshTx] = p]
    /\ nestSave' = [nestSave EXCEPT ![p] = [modified |-> modified[p], removed |-> removed[p]]]
    /\ UNCHANGED <<backend, stack, modified, removed, dependency, commitRet,
                   ctxTxs, flushable, runs, flushLog, ctxResult, ctorArgs, ctorResult,
                   lastCommitted, committedView, lastWrite, writeRet, restOfNest>>

\* put / remove on a transaction that is not open (here: NESTED) throws.
WriteRejected(t) ==
    /\ state[t] = "NESTED"
    /\ writeRet' = [writeRet EXCEPT ![t] = "threw"]
    /\ UNCHANGED <<progVars, histVars, nestSave, restOfNest>>

\* A delta map laid over another one.
Overlay(top, below) == [k \in Keys |-> IF top[k] # None THEN top[k] ELSE below[k]]

\* A merge that does not withdraw the parent's remove of a key the child put.
MergeChildKeepRemoved(w, c) ==
    LET p == w.parent[c] IN
    [w EXCEPT !.modified[p] = [k \in Keys |->
                    IF k \in w.removed[c] THEN None
                    ELSE IF w.modified[c][k] # None THEN w.modified[c][k] ELSE @[k]],
              !.removed[p] = @ \cup w.removed[c],
              !.state[c] = "COMMITTED",
              !.state[p] = "OPEN"]

\* Committing a child: its deltas are applied to the parent's buffer, the
\* child's removes first taken as removes, its puts as puts; the parent is
\* open again.
MergeChild(w, c) ==
    LET p == w.parent[c] IN
    [w EXCEPT !.modified[p] = [k \in Keys |->
                    IF k \in w.removed[c] THEN None
                    ELSE IF w.modified[c][k] # None THEN w.modified[c][k] ELSE @[k]],
              !.removed[p] = (@ \ {k \in Keys : w.modified[c][k] # None}) \cup w.removed[c],
              !.state[c] = "COMMITTED",
              !.state[p] = "OPEN"]

\* Transaction.commit() of a nested transaction.
CommitNested(c) ==
    /\ Usable(c)
    /\ nested[c]
    /\ SetWorld(MergeChild(World, c))
    /\ commitRet' = [commitRet EXCEPT ![c] = "true"]
    /\ lastWrite' = [lastWrite EXCEPT ![parent[c]] = Overlay(lastWrite[c], @),
                                      ![c] = EmptyMod]
    /\ snap' = [snap EXCEPT ![c] = EmptyStore]
    /\ UNCHANGED <<txStore, nested, ctxResult, ctorArgs, ctorResult, base,
                   lastCommitted, committedView, extVars>>

\* An abort of a child that hands the child's deltas to the parent.
AbortChildMerging(w, c) == [MergeChild(w, c) EXCEPT !.state[c] = "ABORTED"]

\* Transaction.abort() of a nested transaction: the parent is open again.
AbortChild(w, c) ==
    [w EXCEPT !.state[c] = "ABORTED",
              !.modified[c] = EmptyMod,
              !.removed[c] = {},
              !.state[w.parent[c]] = "OPEN"]

AbortNested(c) ==
    /\ Usable(c)
    /\ nested[c]
    /\ SetWorld(AbortChild(World, c))
    /\ lastWrite' = [lastWrite EXCEPT ![c] = EmptyMod]
    /\ snap' = [snap EXCEPT ![c] = EmptyStore]
    /\ UNCHANGED <<txStore, nested, commitRet, ctxResult, ctorArgs, ctorResult, base,
                   lastCommitted, committedView, extVars>>

\* JungleDB.commitCombined(tx1, tx2, ...txs) on transactions: construct the
\* CombinedTransaction and run commit() up to its first suspension. With an
\* inconsistent argument list the constructor throws and nothing changes.
ArgLists == [1..2 -> TxIds]

CommitCombined(args) ==
    /\ ctxTxs = << >>
    /\ \A i \in 1..Len(args) : state[args[i]] # "NONE"
    /\ IsConsistent(World, CtxOrder(args))
    /\ LET txs == CtxOrder(args)
           w0 == SetDependency([World EXCEPT !.ctxTxs = txs], txs)
       IN IF CtxIsCommittable(w0, txs)
          THEN LET w1 == SettleCommitted(CommitAll(w0, txs, 1), txs) IN
               /\ SetWorld(w1)
               /\ ctxResult' = IF Awaiting(w1) \cap Range(txs) # {} THEN "pending" ELSE "true"
               /\ lastCommitted' = [s \in AllStores |->
                      IF \E p \in Range(txs) : txStore[p] = s
                      THEN CHOOSE p \in Range(txs) : txStore[p] = s
                      ELSE lastCommitted[s]]
               /\ committedView' = [s \in AllStores |->
                      IF \E p \in Range(txs) : txStore[p] = s
                      THEN TxView(World, CHOOSE p \in Range(txs) : txStore[p] = s)
                      ELSE committedView[s]]
          ELSE /\ SetWorld(CtxAbortBackend(w0, txs))
               /\ ctxResult' = "false"
               /\ UNCHANGED <<lastCommitted, committedView>>
    /\ CloseHist
    /\ UNCHANGED <<txStore, nested, commitRet, ctorArgs, ctorResult, base>>
    /\ UNCHANGED extVars

\* A flush that throws: the exception reaches the call that awaited it.
FailRun(i) ==
    /\ runs' = [runs EXCEPT ![i].pc = "failed"]
    /\ flushLog' = Append(flushLog, Event("threw", runs[i].owner))
    /\ ctxResult' = IF runs[i].owner \in Range(ctxTxs) /\ ctxResult = "pending"
                    THEN "threw" ELSE ctxResult
    /\ commitRet' = IF runs[i].owner # NoTx /\ runs[i].owner \notin Range(ctxTxs)
                    THEN [commitRet EXCEPT ![runs[i].owner] = "threw"] ELSE commitRet
    /\ UNCHANGED <<backend, stack, state, txStore, parent, modified, removed, nested,
                   dependency, ctxTxs, flushable, ctorArgs, ctorResult, histVars>>
    /\ UNCHANGED extVars

\* onFlushable: await Promise.all(preprocessings) resolves.
PreprocessingDone(i) ==
    /\ i \in 1..Len(runs) /\ runs[i].pc = "pre"
    /\ runs' = [runs EXCEPT ![i].pc = "write"]
    /\ flushLog' = Append(flushLog, Event("preprocessed", NoTx))
    /\ UNCHANGED <<backend, stack, state, txStore, parent, modified, removed, nested,
                   dependency, commitRet, ctxTxs, flushable, ctxResult, ctorArgs,
                   ctorResult, histVars>>
    /\ UNCHANGED extVars

\* onFlushable: a preprocessing hook rejects.
PreprocessingFailed(i) ==
    /\ i \in 1..Len(runs) /\ runs[i].pc = "pre"
    /\ FailRun(i)

\* onFlushable: await JungleDB.commitCombined(this) resolves.
BackendWriteDone(i) ==
    /\ i \in 1..Len(runs) /\ runs[i].pc = "write"
    /\ backend' = CommitCombinedBackend(World)
    /\ runs' = [runs EXCEPT ![i].pc = "cb"]
    /\ flushLog' = flushLog \o CommitCombinedSteps(World)
    /\ UNCHANGED <<stack, state, txStore, parent, modified, removed, nested,
                   dependency, commitRet, ctxTxs, flushable, ctxResult, ctorArgs,
                   ctorResult, histVars>>
    /\ UNCHANGED extVars

\* JungleDB.commitCombined(ctx): applySync or txn.commit() throws; the write
\* transaction is not committed and no in-memory function has run.
BackendWriteFailed(i) ==
    /\ i \in 1..Len(runs) /\ runs[i].pc = "write"
    /\ HasPersistentParticipant(World)
    /\ FailRun(i)

\* onFlushable: the callbacks run, the call returns true to the store that
\* made it, and the commit awaiting it completes.
FlushCallbacks(i) ==
    /\ i \in 1..Len(runs) /\ runs[i].pc = "cb"
    /\ LET w1 == RunCallbacks(World, ctxTxs, 1)
           o == runs[i].owner
           w2 == IF o # NoTx THEN [w1 EXCEPT !.state[o] = "COMMITTED"] ELSE w1
       IN /\ SetWorld([w2 EXCEPT !.runs[i].pc = "done",
                                  !.log = Append(@, Event("true", NoTx))])
          /\ ctxResult' = IF o \in Range(ctxTxs) /\ ctxResult = "pending"
                          THEN "true" ELSE ctxResult
          /\ commitRet' = IF o # NoTx /\ o \notin Range(ctxTxs)
                          THEN [commitRet EXCEPT ![o] = "true"] ELSE commitRet
    /\ UNCHANGED <<txStore, nested, ctorArgs, ctorResult, histVars>>
    /\ UNCHANGED extVars

\* The calls of onFlushable made for t so far.
ReportsOf(t) ==
    Cardinality({j \in 1..Len(flushLog) : flushLog[j].tx = t
                                          /\ flushLog[j].ev \in {"false", "preprocessing"}})

\* The store of t runs its flush loop again while t, already reported, is
\* still the bottom of its stack, and calls onFlushable(t, ...) once more.
ReportAgain(t) ==
    /\ Len(runs) < MaxFlushRuns
    /\ ReportsOf(t) < MaxFlushRuns
    /\ t \in Range(ctxTxs)
    /\ t \in flushable
    /\ dependency[t]
    /\ stack[txStore[t]] # << >> /\ Head(stack[txStore[t]]) = t
    /\ IsFlushable(World, txStore[t])
    /\ SetWorld(OnFlushable(World, t, NoTx))
    /\ UNCHANGED <<txStore, nested, commitRet, ctxResult, ctorArgs, ctorResult, histVars>>
    /\ UNCHANGED extVars

\* new CombinedTransaction(...transactions)
NewCombinedTransaction(txs) ==
    /\ ctorArgs' = txs
    /\ IF IsConsistent(World, txs)
       THEN /\ ctorResult' = "ok"
            /\ ctxTxs' = txs
            /\ dependency' = SetDependency(World, txs).dependency
       ELSE /\ ctorResult' = "threw"
            /\ UNCHANGED <<ctxTxs, dependency>>
    /\ UNCHANGED <<backend, stack, state, txStore, parent, modified, removed, nested,
                   commitRet, flushable, runs, flushLog, ctxResult, histVars>>
    /\ UNCHANGED extVars

\* -------------------------------------------------------- PersistentIndex
\* Primary keys, secondary keys and values of an indexed object store. Value 1
\* does not have the indexed attribute, values 2 and 3 hold the secondary keys
\* 1 and 2, value 4 holds the array [1, 2]; ArrKey is that array as one key.
PKeys == {1, 2}
SKeys == {1, 2, 3}
ArrKey == CHOOSE s \in SKeys : \A r \in SKeys : r <= s
IxVals == {1, 2, 3, 4}

\* ObjectUtils.byKeyPath: the attribute at the key path, undefined if missing.
Undefined == [arr |-> FALSE, ks |-> << >>]
ByKeyPath(v) ==
    CASE v = 2 -> [arr |-> FALSE, ks |-> <<1>>]
      [] v = 3 -> [arr |-> FALSE, ks |-> <<2>>]
      [] v = 4 -> [arr |-> TRUE, ks |-> <<1, 2>>]
      [] v = 5 -> [arr |-> TRUE, ks |-> <<1, 1>>]
      [] OTHER -> Undefined

\* PersistentIndex._indexKey of an index with a key path.
IndexKey(v) == IF v = Absent THEN Undefined ELSE ByKeyPath(v)

\* A list of secondary keys that takes only the first element of an array.
IKeyListFirstOnly(cfg, iKeys) ==
    IF ~cfg.multiEntry \/ ~iKeys.arr
    THEN (IF iKeys.arr THEN <<ArrKey>> ELSE iKeys.ks)
    ELSE <<Head(iKeys.ks)>>

\* _insert / _remove: if (!this._multiEntry || !Array.isArray(iKeys)) iKeys = [iKeys].
IKeyList(cfg, iKeys) ==
    IF ~cfg.multiEntry \/ ~iKeys.arr
    THEN (IF iKeys.arr THEN <<ArrKey>> ELSE iKeys.ks)
    ELSE iKeys.ks

EmptyIndex == [s \in SKeys |-> << >>]

\* PersistentIndex._insert: the loop over the secondary keys; ok is FALSE when
\* the uniqueness constraint is violated (the method throws).
RECURSIVE Insert(_, _, _, _, _)
Insert(ix, cfg, primaryKey, keys, i) ==
    IF i > Len(keys) THEN [ok |-> TRUE, ix |-> ix]
    ELSE IF cfg.unique /\ ix[keys[i]] # << >> THEN [ok |-> FALSE, ix |-> ix]
    ELSE Insert([ix EXCEPT ![keys[i]] = IF cfg.unique THEN <<primaryKey>>
                                         ELSE Append(@, primaryKey)],
                cfg, primaryKey, keys, i + 1)

\* Array.indexOf (0 - 1 when absent) and Array.splice(index, 1); a negative
\* index counts from the end of the array.
IndexOf(pKeys, primaryKey) ==
    IF \E j \in 1..Len(pKeys) : pKeys[j] = primaryKey
    THEN CHOOSE j \in 1..Len(pKeys) :
            pKeys[j] = primaryKey /\ \A l \in 1..(j - 1) : pKeys[l] # primaryKey
    ELSE 0
Splice(pKeys, j) ==
    LET at == IF j = 0 THEN Len(pKeys) ELSE j IN
    SubSeq(pKeys, 1, at - 1) \o SubSeq(pKeys, at + 1, Len(pKeys))

\* PersistentIndex._remove: the loop over the secondary keys.
RECURSIVE IxRemoveKeys(_, _, _, _, _)
IxRemoveKeys(ix, cfg, primaryKey, keys, i) ==
    IF i > Len(keys) THEN ix
    ELSE LET pKeys == ix[keys[i]]
             next == IF pKeys = << >> THEN ix
                     ELSE IF ~cfg.unique /\ Len(pKeys) > 1
                          THEN [ix EXCEPT ![keys[i]] = Splice(pKeys, IndexOf(pKeys, primaryKey))]
                          ELSE [ix EXCEPT ![keys[i]] = << >>]
         IN IxRemoveKeys(next, cfg, primaryKey, keys, i + 1)

\* A put that returns at once when the new value has no indexed attribute.
IndexPutSkipUndefined(ix, cfg, key, value, oldValue) ==
    IF IndexKey(value) = Undefined THEN [ok |-> TRUE, ix |-> ix]
    ELSE Insert(IF IndexKey(oldValue) # Undefined
                THEN IxRemoveKeys(ix, cfg, key, IKeyList(cfg, IndexKey(oldValue)), 1) ELSE ix,
                cfg, key, IKeyList(cfg, IndexKey(value)), 1)

\* PersistentIndex.put(key, value, oldValue, txn).
IndexPut(ix, cfg, key, value, oldValue) ==
    LET oldIKey == IndexKey(oldValue)
        newIKey == IndexKey(value)
        ix1 == IF oldIKey # Undefined
               THEN IxRemoveKeys(ix, cfg, key, IKeyList(cfg, oldIKey), 1) ELSE ix
    IN IF newIKey # Undefined
       THEN Insert(ix1, cfg, key, IKeyList(cfg, newIKey), 1)
       ELSE [ok |-> TRUE, ix |-> ix1]

\* A remove that leaves the entry in the index.
IndexRemoveKeepEntry(ix, cfg, key, oldValue) == ix

\* PersistentIndex.remove(key, oldValue, txn).
IndexRemove(ix, cfg, key, oldValue) ==
    IF IndexKey(oldValue) # Undefined
    THEN IxRemoveKeys(ix, cfg, key, IKeyList(cfg, IndexKey(oldValue)), 1) ELSE ix

\* tx._originalValues.get(key): undefined for a key the map does not hold.
OriginalGet(tx, key) ==
    IF tx.originalValues[key] = None THEN Absent ELSE tx.originalValues[key]

\* PersistentIndex.applySync: for (const key of tx._removed) ...
RECURSIVE ApplyRemoved(_, _, _, _)
ApplyRemoved(ix, cfg, tx, i) ==
    IF i > Len(tx.removed) THEN ix
    ELSE ApplyRemoved(IndexRemove(ix, cfg, tx.removed[i], OriginalGet(tx, tx.removed[i])),
                      cfg, tx, i + 1)

\* PersistentIndex.applySync: for (const [key, value] of tx._modified) ...
RECURSIVE ApplyModified(_, _, _, _)
ApplyModified(ix, cfg, tx, i) ==
    IF i > Len(tx.modified) THEN [ok |-> TRUE, ix |-> ix]
    ELSE LET r == IndexPut(ix, cfg, tx.modified[i][1], tx.modified[i][2],
                           OriginalGet(tx, tx.modified[i][1]))
         IN IF r.ok THEN ApplyModified(r.ix, cfg, tx, i + 1) ELSE r

\* PersistentIndex.applySync(tx, txn).
ApplySync(ix, cfg, tx) ==
    ApplyModified(ApplyRemoved(IF tx.truncated THEN EmptyIndex ELSE ix, cfg, tx, 1),
                  cfg, tx, 1)

\* ---------------------------------------------- PersistentIndex: queries
\* The secondary keys a value has in the index.
SecondaryKeys(cfg, v) == Range(IKeyList(cfg, IndexKey(v)))

\* A query is a KeyRange [lower, upper] on the secondary keys; a query of
\* null is the range of all keys.
Ranges == {r \in SKeys \X SKeys : r[1] <= r[2]}

\* LMDBBackend.values(query) on the index's database: the entries whose
\* secondary key lies in the range, in ascending order of the key.
RECURSIVE Scan(_, _, _)
Scan(ix, lower, upper) ==
    IF lower > upper THEN << >>
    ELSE (IF ix[lower] # << >> THEN <<ix[lower]>> ELSE << >>) \o Scan(ix, lower + 1, upper)

\* PersistentIndex._retrieveKeys: the entries' primary keys in one array.
RECURSIVE RetrieveKeys(_)
RetrieveKeys(results) ==
    IF results = << >> THEN << >> ELSE Head(results) \o RetrieveKeys(Tail(results))

\* PersistentIndex.keys(query): Set.from(this._retrieveKeys(results)).
IndexKeys(ix, r) == Range(RetrieveKeys(Scan(ix, r[1], r[2])))

\* A count of the secondary keys that have an entry.
IndexCountSecondaryKeys(ix, r) == Len(Scan(ix, r[1], r[2]))

\* PersistentIndex.count(query): this._retrieveKeys(results).length.
IndexCount(ix, r) == Len(RetrieveKeys(Scan(ix, r[1], r[2])))

\* LMDBBackend.minValue / maxValue(query) on the index's database: the entry
\* of the least / greatest secondary key in the range, undefined if none.
MinValue(ix, r) ==
    IF Scan(ix, r[1], r[2]) = << >> THEN << >> ELSE Head(Scan(ix, r[1], r[2]))
MaxValue(ix, r) ==
    IF Scan(ix, r[1], r[2]) = << >> THEN << >>
    ELSE Scan(ix, r[1], r[2])[Len(Scan(ix, r[1], r[2]))]

\* PersistentIndex._retrieveValues: this._objectStore.getSync(key) for each key.
RetrieveValues(data, results) ==
    [j \in 1..Len(RetrieveKeys(results)) |-> data[RetrieveKeys(results)[j]]]

\* A result that is a rejected promise.
Rejected == [ok |-> FALSE, vals |-> << >>]
Resolved(vals) == [ok |-> TRUE, vals |-> vals]

\* lmdb PersistentIndex.minKeys / maxKeys: Set.from(await this.minValue(query)).
LmdbMinKeys(ix, r) == Range(MinValue(ix, r))
LmdbMaxKeys(ix, r) == Range(MaxValue(ix, r))

\* lmdb PersistentIndex.minValues: this._retrieveValues([result]).
LmdbMinValues(ix, data, r) ==
    Resolved(RetrieveValues(data, IF MinValue(ix, r) = << >> THEN << >> ELSE <<MinValue(ix, r)>>))

\* lmdb PersistentIndex.maxValues: the result is bound to `results`, the
\* method reads `result`, which is not defined: a ReferenceError.
LmdbMaxValues(ix, data, r) == Rejected

\* The records of the IndexedDB index inside a range: one per secondary key
\* of each stored value, ordered by secondary key, then by primary key.
IdbInRange(data, cfg, r) ==
    {e \in PKeys \X SKeys : /\ e[2] \in SecondaryKeys(cfg, data[e[1]])
                            /\ r[1] <= e[2] /\ e[2] <= r[2]}
IdbBefore(e, f) == e[2] < f[2] \/ (e[2] = f[2] /\ e[1] < f[1])
IdbFirst(recs) == CHOOSE e \in recs : \A f \in recs \ {e} : IdbBefore(e, f)
IdbLast(recs) == CHOOSE e \in recs : \A f \in recs \ {e} : IdbBefore(f, e)

\* The primary keys of a set of records as a sequence, ascending or descending.
RECURSIVE KeysInOrder(_, _)
KeysInOrder(ks, ascending) ==
    IF ks = {} THEN << >>
    ELSE LET k == CHOOSE x \in ks : \A y \in ks : IF ascending THEN x <= y ELSE x >= y
         IN <<k>> \o KeysInOrder(ks \ {k}, ascending)

\* IndexedDB PersistentIndex.minKeys / maxKeys: a cursor 'next' / 'prev' that
\* is followed until the key changes.
IdbMinKeys(data, cfg, r) ==
    LET recs == IdbInRange(data, cfg, r) IN
    IF recs = {} THEN {} ELSE {e[1] : e \in {f \in recs : f[2] = IdbFirst(recs)[2]}}
IdbMaxKeys(data, cfg, r) ==
    LET recs == IdbInRange(data, cfg, r) IN
    IF recs = {} THEN {} ELSE {e[1] : e \in {f \in recs : f[2] = IdbLast(recs)[2]}}

\* IndexedDB PersistentIndex.minValues / maxValues: the decoded cursor values.
IdbMinValues(data, cfg, r) ==
    LET ks == KeysInOrder(IdbMinKeys(data, cfg, r), TRUE) IN
    Resolved([j \in 1..Len(ks) |-> data[ks[j]]])
IdbMaxValues(data, cfg, r) ==
    LET ks == KeysInOrder(IdbMaxKeys(data, cfg, r), FALSE) IN
    Resolved([j \in 1..Len(ks) |-> data[ks[j]]])

\* browser PersistentIndex.minKeys / maxKeys: the primary key of the record
\* the cursor is opened on, and no other.
BrowserMinKeys(data, cfg, r) ==
    IF IdbInRange(data, cfg, r) = {} THEN {} ELSE {IdbFirst(IdbInRange(data, cfg, r))[1]}
BrowserMaxKeys(data, cfg, r) ==
    IF IdbInRange(data, cfg, r) = {} THEN {} ELSE {IdbLast(IdbInRange(data, cfg, r))[1]}

\* browser PersistentIndex.minValues / maxValues: the value of that record.
BrowserMinValues(data, cfg, r) ==
    Resolved([j \in 1..Cardinality(BrowserMinKeys(data, cfg, r)) |->
                 data[IdbFirst(IdbInRange(data, cfg, r))[1]]])
BrowserMaxValues(data, cfg, r) ==
    Resolved([j \in 1..Cardinality(BrowserMaxKeys(data, cfg, r)) |->
                 data[IdbLast(IdbInRange(data, cfg, r))[1]]])

\* IndexedDB / browser PersistentIndex.keys and count: the primary keys of
\* the records in the range, and index.count(query).
IdbKeys(data, cfg, r) == {e[1] : e \in IdbInRange(data, cfg, r)}
IdbCount(data, cfg, r) == Cardinality(IdbInRange(data, cfg, r))

Impls == {"lmdb", "indexeddb", "browser"}

\* ------------------------------------------ Transaction on an indexed store
\* _modified is a Map and _removed a Set: both iterate in insertion order.
MapHas(m, key) == \E j \in 1..Len(m) : m[j][1] = key
MapGet(m, key) == m[CHOOSE j \in 1..Len(m) : m[j][1] = key][2]
MapSet(m, key, value) ==
    IF MapHas(m, key)
    THEN [j \in 1..Len(m) |-> IF m[j][1] = key THEN <<key, value>> ELSE m[j]]
    ELSE Append(m, <<key, value>>)
MapDelete(m, key) == SelectSeq(m, LAMBDA e : e[1] # key)
SetAdd(s, key) == IF key \in Range(s) THEN s ELSE Append(s, key)
SetDelete(s, key) == SelectSeq(s, LAMBDA e : e # key)

NoOriginals == [k \in PKeys |-> None]
FreshIxTx == [state |-> "OPEN", modified |-> << >>, removed |-> << >>,
              originalValues |-> NoOriginals, truncated |-> FALSE, ops |-> 0]

\* Transaction.get on the indexed store.
IxTxGet(tx, data, key) ==
    IF key \in Range(tx.removed) THEN Absent
    ELSE IF MapHas(tx.modified, key) THEN MapGet(tx.modified, key)
    ELSE IF tx.truncated THEN Absent
    ELSE data[key]
IxTxView(tx, data) == [k \in PKeys |-> IxTxGet(tx, data, k)]

\* A uniqueness check that only looks at what the backend holds.
UniquenessViolationBackend(cfg, tx, data, key, value) ==
    /\ cfg.unique
    /\ \E other \in PKeys \ {key} :
          SecondaryKeys(cfg, data[other]) \cap SecondaryKeys(cfg, value) # {}

\* The put would give one secondary key of a unique index two primary keys
\* (the check the transaction's TransactionIndex makes on put).
UniquenessViolation(cfg, tx, data, key, value) ==
    /\ cfg.unique
    /\ \E other \in PKeys \ {key} :
          SecondaryKeys(cfg, IxTxGet(tx, data, other)) \cap SecondaryKeys(cfg, value) # {}

\* The first write to a key records the value the transaction read for it.
RecordOriginal(tx, data, key) ==
    IF tx.originalValues[key] # None THEN tx.originalValues
    ELSE [tx.originalValues EXCEPT ![key] = IxTxGet(tx, data, key)]

IxAborted == [FreshIxTx EXCEPT !.state = "ABORTED"]
IxClearQuery == ixQ' = [op |-> "none"]

\* Transaction.put(key, value); ObjectStore.put is this put on a fresh
\* transaction followed by its commit.
IxPut(key, value) ==
    /\ ixTx.state = "OPEN"
    /\ ixTx.ops < MaxTxOps
    /\ IF UniquenessViolation(ixCfg, ixTx, ixData, key, value)
       THEN /\ ixTx' = IxAborted
            /\ ixRet' = "rejected"
       ELSE /\ ixTx' = [ixTx EXCEPT !.originalValues = RecordOriginal(ixTx, ixData, key),
                                    !.modified = MapSet(@, key, value),
                                    !.removed = SetDelete(@, key),
                                    !.ops = @ + 1]
            /\ ixRet' = "ok"
    /\ IxClearQuery
    /\ UNCHANGED <<ixCfg, ixData, ixIndex, restOfIx>>

\* Transaction.remove(key).
IxRemove(key) ==
    /\ ixTx.state = "OPEN"
    /\ ixTx.ops < MaxTxOps
    /\ ixTx' = [ixTx EXCEPT !.originalValues = RecordOriginal(ixTx, ixData, key),
                            !.modified = MapDelete(@, key),
                            !.removed = SetAdd(@, key),
                            !.ops = @ + 1]
    /\ ixRet' = "ok"
    /\ IxClearQuery
    /\ UNCHANGED <<ixCfg, ixData, ixIndex, restOfIx>>

\* Transaction.truncate().
IxTruncate ==
    /\ ixTx.state = "OPEN"
    /\ ixTx.ops < MaxTxOps
    /\ ixTx' = [ixTx EXCEPT !.truncated = TRUE,
                            !.modified = << >>,
                            !.removed = << >>,
                            !.originalValues = NoOriginals,
                            !.ops = @ + 1]
    /\ ixRet' = "ok"
    /\ IxClearQuery
    /\ UNCHANGED <<ixCfg, ixData, ixIndex, restOfIx>>

\* Transaction.commit() and the flush into the backend: the values and, by
\* applySync, the index are written in one backend transaction, which is not
\* committed when applySync throws.
IxCommit ==
    /\ ixTx.state = "OPEN"
    /\ LET r == ApplySync(ixIndex, ixCfg, ixTx) IN
       IF r.ok
       THEN /\ ixData' = IxTxView(ixTx, ixData)
            /\ ixIndex' = r.ix
            /\ ixTx' = [ixTx EXCEPT !.state = "FLUSHED"]
            /\ ixRet' = "committed"
       ELSE /\ ixTx' = IxAborted
            /\ ixRet' = "flushThrew"
            /\ UNCHANGED <<ixData, ixIndex>>
    /\ IxClearQuery
    /\ UNCHANGED <<ixCfg, restOfIx>>

\* Transaction.abort().
IxAbort ==
    /\ ixTx.state = "OPEN"
    /\ ixTx.ops > 0
    /\ ixTx' = IxAborted
    /\ ixRet' = "aborted"
    /\ IxClearQuery
    /\ UNCHANGED <<ixCfg, ixData, ixIndex, restOfIx>>

\* ObjectStore.transaction() once the previous transaction is closed.
IxBegin ==
    /\ ixTx.state # "OPEN"
    /\ ixTx' = FreshIxTx
    /\ ixRet' = "none"
    /\ IxClearQuery
    /\ UNCHANGED <<ixCfg, ixData, ixIndex, restOfIx>>

\* keys, count, minKeys, maxKeys, minValues and maxValues of the index, asked
\* of one of the PersistentIndex implementations between two transactions.
IxQuery(impl, r) ==
    /\ ixTx.state # "OPEN"
    /\ ixQ.op = "none"
    /\ ixQ' = [op |-> "query", impl |-> impl, range |-> r,
               keys |-> IF impl = "lmdb" THEN IndexKeys(ixIndex, r)
                        ELSE IdbKeys(ixData, ixCfg, r),
               count |-> IF impl = "lmdb" THEN IndexCount(ixIndex, r)
                         ELSE IdbCount(ixData, ixCfg, r),
               minKeys |-> CASE impl = "lmdb" -> LmdbMinKeys(ixIndex, r)
                             [] impl = "indexeddb" -> IdbMinKeys(ixData, ixCfg, r)
                             [] OTHER -> BrowserMinKeys(ixData, ixCfg, r),
               maxKeys |-> CASE impl = "lmdb" -> LmdbMaxKeys(ixIndex, r)
                             [] impl = "indexeddb" -> IdbMaxKeys(ixData, ixCfg, r)
                             [] OTHER -> BrowserMaxKeys(ixData, ixCfg, r),
               minValues |-> CASE impl = "lmdb" -> LmdbMinValues(ixIndex, ixData, r)
                               [] impl = "indexeddb" -> IdbMinValues(ixData, ixCfg, r)
                               [] OTHER -> BrowserMinValues(ixData, ixCfg, r),
               maxValues |-> CASE impl = "lmdb" -> LmdbMaxValues(ixIndex, ixData, r)
                               [] impl = "indexeddb" -> IdbMaxValues(ixData, ixCfg, r)
                               [] OTHER -> BrowserMaxValues(ixData, ixCfg, r)]
    /\ UNCHANGED <<ixCfg, ixData, ixIndex, ixTx, ixRet, restOfIx>>

\* --------------------------------------------------- ordered store scans
\* The store's backend is an ordered key -> value map: its entries are kept
\* in key order, each put entering its key at the key's place.
ScanKeys == 1..4
KeyRanges ==
    {[lower |-> l, upper |-> u, lowerOpen |-> lo, upperOpen |-> uo] :
        l \in 0..4, u \in 1..5, lo \in BOOLEAN, uo \in BOOLEAN}
AllowedRanges ==
    {r \in KeyRanges : /\ r.lower = 0 \/ r.upper = 5
                       /\ r.lower = 0 => ~r.lowerOpen
                       /\ r.upper = 5 => ~r.upperOpen}

\* KeyRange.includes(key).
Includes(r, key) ==
    /\ IF r.lowerOpen THEN r.lower < key ELSE r.lower <= key
    /\ IF r.upperOpen THEN key < r.upper ELSE key <= r.upper

\* A put that enters a new key behind all entries.
TreeInsertAtEnd(tree, key, value) ==
    IF \E j \in 1..Len(tree) : tree[j][1] = key
    THEN [j \in 1..Len(tree) |-> IF tree[j][1] = key THEN <<key, value>> ELSE tree[j]]
    ELSE Append(tree, <<key, value>>)

\* put on the ordered map: an existing key gets the value, a new key is
\* entered before the first greater key.
TreeInsert(tree, key, value) ==
    IF \E j \in 1..Len(tree) : tree[j][1] = key
    THEN [j \in 1..Len(tree) |-> IF tree[j][1] = key THEN <<key, value>> ELSE tree[j]]
    ELSE SelectSeq(tree, LAMBDA e : e[1] < key) \o <<<<key, value>>>>
         \o SelectSeq(tree, LAMBDA e : e[1] > key)

\* remove on the ordered map.
TreeRemove(tree, key) == SelectSeq(tree, LAMBDA e : e[1] # key)

\* A scan: the entries inside the range in the order the map holds them.
TreeScan(tree, r) == SelectSeq(tree, LAMBDA e : Includes(r, e[1]))

\* ObjectStore.put(key, value).
ScPut(key, value) ==
    /\ scStore' = TreeInsert(scStore, key, value)
    /\ scResult' = [op |-> "none"]
    /\ UNCHANGED <<restOfSc>>

\* ObjectStore.remove(key).
ScRemove(key) ==
    /\ \E j \in 1..Len(scStore) : scStore[j][1] = key
    /\ scStore' = TreeRemove(scStore, key)
    /\ scResult' = [op |-> "none"]
    /\ UNCHANGED <<restOfSc>>

\* ObjectStore.keys(range) and ObjectStore.values(range).
ScScan(r) ==
    /\ scResult' = [op |-> "scan", range |-> r,
                    keys |-> [j \in 1..Len(TreeScan(scStore, r)) |-> TreeScan(scStore, r)[j][1]],
                    values |-> [j \in 1..Len(TreeScan(scStore, r)) |-> TreeScan(scStore, r)[j][2]]]
    /\ UNCHANGED <<scStore, restOfSc>>

\* ------------------------------------------------ LevelDBTools.convertKeyRange
\* The first argument: a KeyRange (kr) or another object with the same
\* fields; a bound of Absent is undefined.
RangeArgs ==
    {[kr |-> kr, lower |-> l, upper |-> u, lowerOpen |-> lo, upperOpen |-> uo] :
        kr \in BOOLEAN, l \in ScanKeys \cup {Absent}, u \in ScanKeys \cup {Absent},
        lo \in BOOLEAN, uo \in BOOLEAN}

\* The options object handed in: empty, or with a field that is no bound.
\* A field of Absent is not set.
NoOptions == [gt |-> Absent, gte |-> Absent, lt |-> Absent, lte |-> Absent,
              limit |-> Absent, keys |-> Absent]
OptionArgs == {NoOptions, [NoOptions EXCEPT !.keys = 1]}

\* The limit argument; None is null.
LimitArgs == {None, 1, 2}

\* A conversion that makes every bound inclusive.
ConvertKeyRangeClosed(keyRange, options, limit) ==
    LET o1 == IF limit # None THEN [options EXCEPT !.limit = limit] ELSE options
        o2 == IF keyRange.lower # Absent THEN [o1 EXCEPT !.gte = keyRange.lower] ELSE o1
        o3 == IF keyRange.upper # Absent THEN [o2 EXCEPT !.lte = keyRange.upper] ELSE o2
    IN IF ~keyRange.kr THEN o1 ELSE o3

\* LevelDBTools.convertKeyRange(keyRange, options, limit).
ConvertKeyRange(keyRange, options, limit) ==
    LET o1 == IF limit # None THEN [options EXCEPT !.limit = limit] ELSE options
        lowerKey == IF keyRange.lowerOpen THEN "gt" ELSE "gte"
        upperKey == IF keyRange.upperOpen THEN "lt" ELSE "lte"
        o2 == IF keyRange.lower # Absent THEN [o1 EXCEPT ![lowerKey] = keyRange.lower] ELSE o1
        o3 == IF keyRange.upper # Absent THEN [o2 EXCEPT ![upperKey] = keyRange.upper] ELSE o2
    IN IF ~keyRange.kr THEN o1 ELSE o3

\* A LevelDB read stream with these options yields the key.
Satisfies(options, key) ==
    /\ options.gt = Absent \/ key > options.gt
    /\ options.gte = Absent \/ key >= options.gte
    /\ options.lt = Absent \/ key < options.lt
    /\ options.lte = Absent \/ key <= options.lte

\* KeyRange.includes(key) of a range whose bounds may be undefined.
KeyRangeIncludes(r, key) ==
    /\ r.lower = Absent \/ (IF r.lowerOpen THEN r.lower < key ELSE r.lower <= key)
    /\ r.upper = Absent \/ (IF r.upperOpen THEN key < r.upper ELSE key <= r.upper)

\* A call of convertKeyRange.
Convert(keyRange, options, limit) ==
    /\ scResult.op = "none"
    /\ scResult' = [op |-> "convert", keyRange |-> keyRange, given |-> options,
                    limit |-> limit, options |-> ConvertKeyRange(keyRange, options, limit)]
    /\ UNCHANGED <<scStore, restOfSc>>

\* ------------------------------------------------------------ Synchronizer
\* The jobs are numbered in the order of the push calls. A pushed function
\* returns a promise that resolves or rejects, or it throws when called.
JobIds == 1..MaxJobs
FnKinds == {"resolves", "rejects", "throws"}

\* A worker that ends when a pushed function throws.
RECURSIVE DoWorkNoCatch(_)
DoWorkNoCatch(s) ==
    IF s.queue = << >> THEN [s EXCEPT !.working = FALSE]
    ELSE LET job == Head(s.queue)
             s1 == [s EXCEPT !.queue = Tail(@), !.started = Append(@, job)]
         IN IF s.kind[job] = "throws"
            THEN [s1 EXCEPT !.fn[job] = "thrown"]
            ELSE [s1 EXCEPT !.fn[job] = "pending", !.awaiting = @ \cup {job}]

\* Synchronizer._doWork from the head of its loop to its next await: a job is
\* shifted and its function called; a function that throws is caught, its
\* job's error called, and the loop goes on; with the queue empty the worker
\* ends.
RECURSIVE DoWork(_)
DoWork(s) ==
    IF s.queue = << >> THEN [s EXCEPT !.working = FALSE]
    ELSE LET job == Head(s.queue)
             s1 == [s EXCEPT !.queue = Tail(@), !.started = Append(@, job)]
         IN IF s.kind[job] = "throws"
            THEN DoWork([s1 EXCEPT !.fn[job] = "thrown",
                                   !.promise[job] = IF @ = "pending" THEN "rejected" ELSE @,
                                   !.settles[job] = @ + 1])
            ELSE [s1 EXCEPT !.fn[job] = "pending", !.awaiting = @ \cup {job}]

\* A push that starts a worker whether or not one is at work.
StartsWorkerAlways(s) == TRUE

\* Synchronizer.push: if (!this._working).
StartsWorker(s) == ~s.working

\* Synchronizer.push(fn).
Push(kind) ==
    /\ \E j \in JobIds : sync.kind[j] = "none"
    /\ LET job == CHOOSE j \in JobIds : sync.kind[j] = "none" /\ \A i \in 1..(j - 1) : sync.kind[i] # "none"
           s1 == [sync EXCEPT !.kind[job] = kind, !.queue = Append(@, job)]
       IN sync' = IF StartsWorker(s1) THEN DoWork([s1 EXCEPT !.working = TRUE]) ELSE s1
    /\ UNCHANGED restOfSy

\* The promise a running function returned settles.
FnSettles(job) ==
    /\ sync.fn[job] = "pending"
    /\ sync' = [sync EXCEPT !.fn[job] = IF sync.kind[job] = "resolves" THEN "fulfilled" ELSE "rejected"]
    /\ UNCHANGED restOfSy

\* A worker that settles the job it waited for and then stops.
ResumeOnce(job) ==
    /\ job \in sync.awaiting
    /\ sync.fn[job] \in {"fulfilled", "rejected"}
    /\ sync' = [sync EXCEPT !.awaiting = @ \ {job},
                            !.promise[job] = IF @ # "pending" THEN @
                                             ELSE IF sync.fn[job] = "fulfilled" THEN "resolved"
                                             ELSE "rejected",
                            !.settles[job] = @ + 1]
    /\ UNCHANGED restOfSy

\* Synchronizer._doWork resumed after its await: job.resolve(result) or
\* job.error(e), then the loop goes on.
Resume(job) ==
    /\ job \in sync.awaiting
    /\ sync.fn[job] \in {"fulfilled", "rejected"}
    /\ sync' = DoWork([sync EXCEPT !.awaiting = @ \ {job},
                                   !.promise[job] = IF @ # "pending" THEN @
                                                    ELSE IF sync.fn[job] = "fulfilled" THEN "resolved"
                                                    ELSE "rejected",
                                   !.settles[job] = @ + 1])
    /\ UNCHANGED restOfSy

\* ----------------------------------------------------------------- JungleDB
\* Structural operations and connect of one JungleDB instance over an lmdb
\* environment that outlives the instance.
Tables == {1, 2}
Versions == {1, 2}
\* upgradeCondition: null, a boolean, or a callback (here by what it returns).
UpgradeConditions == {"null", "true", "false", "truthyCallback", "falsyCallback"}

\* new JungleDB(databaseDir, dbVersion, onUpgradeNeeded, options).
NewJungleDB(env, dbVersion, hasUpgradeFn) ==
    [dbVersion |-> dbVersion, onUpgradeNeeded |-> hasUpgradeFn, connected |-> FALSE,
     db |-> FALSE, objectStores |-> {}, objectStoreBackends |-> << >>,
     objectStoresToDelete |-> << >>, env |-> env, pc |-> "new", ret |-> "none",
     inited |-> {}, upgradeCalls |-> << >>, scheduled |-> << >>,
     storedBefore |-> env.version, dataBefore |-> env.data, deletes |-> 0]

\* A guard that throws as soon as the environment was opened.
ThrowsWhenOpened(j) == j.db

\* if (this._connected) throw new Error('Cannot create ObjectStore while connected').
ThrowsWhenConnected(j) == j.connected

\* JungleDB.createObjectStore(tableName).
CreateObjectStore(tableName) ==
    /\ jungle' = IF ThrowsWhenConnected(jungle) THEN [jungle EXCEPT !.ret = "threw"]
                 ELSE IF tableName \in jungle.objectStores THEN [jungle EXCEPT !.ret = "ok"]
                 ELSE [jungle EXCEPT !.objectStores = @ \cup {tableName},
                                     !.objectStoreBackends =
                                         Append(@, [backend |-> tableName, upgradeCondition |-> "null"]),
                                     !.ret = "ok"]
    /\ UNCHANGED restOfDb

\* JungleDB.deleteObjectStore(tableName, {upgradeCondition}).
DeleteObjectStore(tableName, upgradeCondition) ==
    /\ jungle.deletes < MaxDeletes
    /\ jungle' = IF ThrowsWhenConnected(jungle)
                 THEN [jungle EXCEPT !.ret = "threw", !.deletes = @ + 1]
                 ELSE [jungle EXCEPT !.deletes = @ + 1,
                                     !.objectStoresToDelete =
                                         Append(@, [tableName |-> tableName,
                                                    upgradeCondition |-> upgradeCondition]),
                                     !.ret = "ok"]
    /\ UNCHANGED restOfDb

\* upgradeCondition === null || upgradeCondition === true
\*     || upgradeCondition(storedVersion, this._dbVersion): calling the boolean
\* false is a TypeError.
ConditionThrows(upgradeCondition) == upgradeCondition = "false"
Drops(upgradeCondition) == upgradeCondition \in {"null", "true", "truthyCallback"}

\* _initDB: the loop over _objectStoresToDelete, from entry i on.
RECURSIVE RunDeletions(_, _, _)
RunDeletions(env, toDelete, i) ==
    IF i > Len(toDelete) THEN [threw |-> FALSE, env |-> env]
    ELSE IF ConditionThrows(toDelete[i].upgradeCondition) THEN [threw |-> TRUE, env |-> env]
    ELSE RunDeletions(IF Drops(toDelete[i].upgradeCondition)
                      THEN [env EXCEPT !.data[toDelete[i].tableName] = FALSE] ELSE env,
                      toDelete, i + 1)

\* JungleDB._initDB up to its await or its end.
InitDB(j) ==
    LET storedVersion == j.env.version
        upgrade == j.dbVersion > storedVersion
        del == RunDeletions(j.env, j.objectStoresToDelete, 1)
        j1 == IF upgrade
              THEN [j EXCEPT !.env = [version |-> j.dbVersion, data |-> del.env.data],
                             !.objectStoresToDelete = << >>]
              ELSE j
        j2 == [j1 EXCEPT !.inited = {j.objectStoreBackends[i].backend :
                                        i \in 1..Len(j.objectStoreBackends)}]
    IN IF upgrade /\ del.threw
       THEN [j EXCEPT !.env = del.env, !.pc = "failed", !.ret = "threw"]
       ELSE IF upgrade /\ j.onUpgradeNeeded
       THEN [j2 EXCEPT !.pc = "awaitUpgrade",
                       !.upgradeCalls = Append(@, [oldVersion |-> storedVersion,
                                                   newVersion |-> j.dbVersion,
                                                   toDelete |-> j2.objectStoresToDelete,
                                                   inited |-> j2.inited,
                                                   connected |-> j2.connected])]
       ELSE [j2 EXCEPT !.connected = TRUE, !.pc = "connected", !.ret = "ok"]

\* JungleDB.connect().
Connect ==
    /\ jungle' = IF jungle.db THEN [jungle EXCEPT !.ret = "ok"]
                 ELSE InitDB([jungle EXCEPT !.db = TRUE,
                                            !.scheduled = jungle.objectStoresToDelete,
                                            !.storedBefore = jungle.env.version,
                                            !.dataBefore = jungle.env.data])
    /\ jungle' # jungle
    /\ UNCHANGED restOfDb

\* _initDB after await this._onUpgradeNeeded(...): this._connected = true.
UpgradeDone ==
    /\ jungle.pc = "awaitUpgrade"
    /\ jungle' = [jungle EXCEPT !.connected = TRUE, !.pc = "connected", !.ret = "ok"]
    /\ UNCHANGED restOfDb

\* The promise of onUpgradeNeeded rejects: _initDB rejects.
UpgradeFails ==
    /\ jungle.pc = "awaitUpgrade"
    /\ jungle' = [jungle EXCEPT !.pc = "failed", !.ret = "threw"]
    /\ UNCHANGED restOfDb

\* JungleDB.close().
Close ==
    /\ jungle.connected
    /\ jungle' = [jungle EXCEPT !.connected = FALSE, !.pc = "closed", !.ret = "ok"]
    /\ UNCHANGED restOfDb

\* ------------------------------------------------------------ index backfill
\* An index declared on a store of an existing database: connect, use, close
\* and connect again with the same version and declarations.
FillConditions == {"null", "true", "truthyCallback"}

\* LMDBBackend.init: whether the index is to be filled. Without a condition
\* it is filled when the backend lacks it; a condition is evaluated on a
\* version bump only.
IsIndexUpgrade(exists, upgradeCondition, oldVersion, newVersion) ==
    IF upgradeCondition = "null" THEN ~exists
    ELSE newVersion > oldVersion /\ upgradeCondition \in {"true", "truthyCallback"}

\* this._objectStore._readStream((value, primaryKey) => this.put(primaryKey,
\* value, undefined, txn)), from primary key k on, in key order.
RECURSIVE ReadStreamPut(_, _, _, _)
ReadStreamPut(ix, cfg, data, k) ==
    IF k \notin PKeys THEN [ok |-> TRUE, ix |-> ix]
    ELSE IF data[k] = Absent THEN ReadStreamPut(ix, cfg, data, k + 1)
    ELSE LET r == IndexPut(ix, cfg, k, data[k], Absent)
         IN IF r.ok THEN ReadStreamPut(r.ix, cfg, data, k + 1) ELSE r

\* An init that fills the index whatever isUpgrade says.
PersistentIndexInitAlways(ix, cfg, data, isUpgrade) ==
    LET r == ReadStreamPut(ix, cfg, data, 1)
    IN IF r.ok THEN r ELSE [ok |-> FALSE, ix |-> ix]

\* PersistentIndex.init(oldVersion, newVersion, isUpgrade); the write
\* transaction of a fill that throws is not committed.
PersistentIndexInit(ix, cfg, data, isUpgrade) ==
    IF isUpgrade
    THEN LET r == ReadStreamPut(ix, cfg, data, 1)
         IN IF r.ok THEN r ELSE [ok |-> FALSE, ix |-> ix]
    ELSE [ok |-> TRUE, ix |-> ix]

\* new JungleDB(dir, dbVersion), createObjectStore, createIndex with the
\* declarations of this program, connect().
FillConnect ==
    /\ fill.pc \in {"new", "closed"}
    /\ fill.connects < MaxConnects
    /\ LET isUpgrade == IsIndexUpgrade(fill.exists, fill.upgradeCondition,
                                       fill.storedVersion, fill.dbVersion)
           r == PersistentIndexInit(ixIndex, ixCfg, ixData, isUpgrade)
       IN /\ ixIndex' = r.ix
          /\ fill' = [fill EXCEPT !.pc = IF r.ok THEN "connected" ELSE "failed",
                                  !.connects = @ + 1,
                                  !.exists = TRUE,
                                  !.storedVersion = fill.dbVersion,
                                  !.filled = @ + (IF isUpgrade THEN 1 ELSE 0),
                                  !.before = ixIndex]
    /\ UNCHANGED <<ixCfg, ixData, restOfFill>>

\* ObjectStore.put(key, value) on the connected store: the index follows; a
\* put the index rejects changes nothing.
FillPut(key, value) ==
    /\ fill.pc = "connected"
    /\ LET r == IndexPut(ixIndex, ixCfg, key, value, ixData[key])
       IN /\ ixIndex' = IF r.ok THEN r.ix ELSE ixIndex
          /\ ixData' = IF r.ok THEN [ixData EXCEPT ![key] = value] ELSE ixData
    /\ UNCHANGED <<fill, ixCfg, restOfFill>>

\* JungleDB.close().
FillClose ==
    /\ fill.pc = "connected"
    /\ fill' = [fill EXCEPT !.pc = "closed"]
    /\ UNCHANGED <<ixCfg, ixData, ixIndex, restOfFill>>

\* ------------------------------------------- PersistentIndex: direct calls
\* The values handed to put and remove: those of the indexed store and value
\* 5, whose indexed attribute is the array [1, 1].
PutVals == IxVals \cup {5}

\* index.put(key, value, oldValue, txn) inside a write transaction of the
\* environment; the transaction of a put that throws is aborted. The object
\* store then holds value under key.
PixPut(key, value, oldValue) ==
    /\ ixQ.op \in {"new", "put", "remove"}
    /\ ixQ.calls < MaxIxCalls
    /\ LET r == IndexPut(ixIndex, ixCfg, key, value, oldValue)
       IN /\ ixIndex' = IF r.ok THEN r.ix ELSE ixIndex
          /\ ixData' = IF r.ok THEN [ixData EXCEPT ![key] = value] ELSE ixData
          /\ ixRet' = IF r.ok THEN "ok" ELSE "threw"
    /\ ixQ' = [op |-> "put", calls |-> ixQ.calls + 1, key |-> key, value |-> value,
               oldValue |-> oldValue, before |-> ixIndex, data |-> ixData]
    /\ UNCHANGED <<ixCfg, ixTx, restOfIx>>

\* index.remove(key, oldValue, txn) inside a write transaction; the object
\* store no longer holds key.
PixRemove(key, oldValue) ==
    /\ ixQ.op \in {"new", "put", "remove"}
    /\ ixQ.calls < MaxIxCalls
    /\ ixIndex' = IndexRemove(ixIndex, ixCfg, key, oldValue)
    /\ ixData' = [ixData EXCEPT ![key] = Absent]
    /\ ixRet' = "ok"
    /\ ixQ' = [op |-> "remove", calls |-> ixQ.calls + 1, key |-> key, value |-> Absent,
               oldValue |-> oldValue, before |-> ixIndex, data |-> ixData]
    /\ UNCHANGED <<ixCfg, ixTx, restOfIx>>

\* ------------------------------------------------------------------ states
NoSave == [modified |-> EmptyMod, removed |-> {}]

InitNest ==
    /\ nestSave = [t \in TxIds |-> NoSave]
    /\ writeRet = [t \in TxIds |-> "none"]

\* An empty indexed store with one index of the given descriptor.
InitIndex(cfg) ==
    /\ ixCfg = cfg
    /\ ixData = [k \in PKeys |-> Absent]
    /\ ixIndex = EmptyIndex
    /\ ixTx = FreshIxTx
    /\ ixRet = "none"
    /\ ixQ = [op |-> "none"]

\* An empty store to scan.
InitScanStore ==
    /\ scStore = << >>
    /\ scResult = [op |-> "none"]

\* new Synchronizer(): an empty queue, no worker.
InitSync ==
    sync = [queue |-> << >>, working |-> FALSE, awaiting |-> {},
            kind |-> [j \in JobIds |-> "none"], fn |-> [j \in JobIds |-> "none"],
            promise |-> [j \in JobIds |-> "pending"], settles |-> [j \in JobIds |-> 0],
            started |-> << >>]

\* No index is being declared on an existing store.
InitFill ==
    fill = [pc |-> "idle", connects |-> 0, exists |-> FALSE, upgradeCondition |-> "null",
            storedVersion |-> 0, dbVersion |-> 1, filled |-> 0, before |-> EmptyIndex]

\* A JungleDB instance of version 1 on a new directory.
InitJungleNew ==
    jungle = NewJungleDB([version |-> 0, data |-> [t \in Tables |-> FALSE]], 1, FALSE)

InitDb == InitJungleNew /\ InitFill

InitExt ==
    /\ InitNest
    /\ InitIndex([unique |-> FALSE, multiEntry |-> FALSE])
    /\ InitScanStore
    /\ InitSync
    /\ InitDb

InitProg(bk) ==
    /\ backend = bk
    /\ stack = [s \in AllStores |-> << >>]
    /\ state = [t \in TxIds |-> "NONE"]
    /\ txStore = [t \in TxIds |-> 1]
    /\ parent = [t \in TxIds |-> NoTx]
    /\ modified = [t \in TxIds |-> EmptyMod]
    /\ removed = [t \in TxIds |-> {}]
    /\ nested = [t \in TxIds |-> FALSE]
    /\ dependency = [t \in TxIds |-> FALSE]
    /\ commitRet = [t \in TxIds |-> "none"]
    /\ ctxTxs = << >>
    /\ flushable = {}
    /\ runs = << >>
    /\ flushLog = << >>
    /\ ctxResult = "none"
    /\ ctorArgs = << >>
    /\ ctorResult = "none"
    /\ snap = [t \in TxIds |-> EmptyStore]
    /\ base = [t \in TxIds |-> NoTx]
    /\ lastCommitted = [s \in AllStores |-> NoTx]
    /\ committedView = bk
    /\ lastWrite = [t \in TxIds |-> EmptyMod]

InitWith(bk) == InitProg(bk) /\ InitExt

\* Two stores of one database, the second one volatile; store 1 is filled with
\* the value 1, the transactions write NewVal or remove.
NewVal == CHOOSE v \in Vals : v # 1

Init == InitWith([s \in AllStores |-> IF s = 1 THEN [k \in Keys |-> 1] ELSE EmptyStore])

Next ==
    \/ \E s \in MainStores : Begin(s)
    \/ \E t \in TxIds, k \in Keys : Put(t, k, NewVal)
    \/ \E t \in TxIds, k \in Keys : Remove(t, k)
    \/ \E t \in TxIds : CommitOk(t)
    \/ \E t \in TxIds : CommitConflict(t)
    \/ \E t \in TxIds : Abort(t)
    \/ \E args \in ArgLists : CommitCombined(args)
    \/ \E i \in 1..MaxFlushRuns : PreprocessingDone(i)
    \/ \E i \in 1..MaxFlushRuns : PreprocessingFailed(i)
    \/ \E i \in 1..MaxFlushRuns : BackendWriteDone(i)
    \/ \E i \in 1..MaxFlushRuns : BackendWriteFailed(i)
    \/ \E i \in 1..MaxFlushRuns : FlushCallbacks(i)

Spec == Init /\ [][Next]_vars

\* Combined transactions of two or three participants on two stores of one
\* database and a volatile store, with readers that delay a store's report.
FlushStores == {s \in AllStores : JungleDBOf(s) \in {"db1", "null"}}
FlushArgLists == [1..2 -> TxIds] \cup [1..3 -> TxIds]

NextFlush ==
    \/ \E s \in FlushStores : Begin(s)
    \/ \E t \in TxIds, k \in Keys : Put(t, k, NewVal)
    \/ \E t \in TxIds : Abort(t)
    \/ \E args \in FlushArgLists : CommitCombined(args)
    \/ \E i \in 1..MaxFlushRuns : PreprocessingDone(i)
    \/ \E i \in 1..MaxFlushRuns : PreprocessingFailed(i)
    \/ \E i \in 1..MaxFlushRuns : BackendWriteDone(i)
    \/ \E i \in 1..MaxFlushRuns : BackendWriteFailed(i)
    \/ \E i \in 1..MaxFlushRuns : FlushCallbacks(i)

SpecFlush == Init /\ [][NextFlush]_vars

\* One object store with any initial contents, transactions only.
InitStore ==
    \E c \in [Keys -> Vals \cup {Absent}] :
        InitWith([s \in AllStores |-> IF s = 1 THEN c ELSE EmptyStore])

NextStore ==
    \/ Begin(1)
    \/ \E t \in TxIds, k \in Keys, v \in Vals : Put(t, k, v)
    \/ \E t \in TxIds, k \in Keys : Remove(t, k)
    \/ \E t \in TxIds : CommitOk(t)
    \/ \E t \in TxIds : CommitConflict(t)
    \/ \E t \in TxIds : Abort(t)

SpecStore == InitStore /\ [][NextStore]_vars


\* commit() and abort() of a transaction that is not nested go to its store.
CommitTop(t) == ~nested[t] /\ CommitOk(t)
ConflictTop(t) == ~nested[t] /\ CommitConflict(t)
AbortTop(t) == ~nested[t] /\ Abort(t)

\* One object store filled with the value 1, transactions and nested
\* transactions that write NewVal or remove.
NextNested ==
    \/ Begin(1)
    \/ \E p \in TxIds : BeginNested(p)
    \/ \E t \in TxIds, k \in Keys : Put(t, k, NewVal)
    \/ \E t \in TxIds, k \in Keys : Remove(t, k)
    \/ \E t \in TxIds : WriteRejected(t)
    \/ \E c \in TxIds : CommitNested(c)
    \/ \E c \in TxIds : AbortNested(c)
    \/ \E t \in TxIds : CommitTop(t)
    \/ \E t \in TxIds : ConflictTop(t)
    \/ \E t \in TxIds : AbortTop(t)

SpecNested == Init /\ [][NextNested]_vars

\* Combined flushes with stores that report a transaction more than once.
NextReport ==
    \/ \E s \in MainStores : Begin(s)
    \/ \E t \in TxIds, k \in Keys : Put(t, k, NewVal)
    \/ \E args \in ArgLists : CommitCombined(args)
    \/ \E t \in TxIds : ReportAgain(t)
    \/ \E i \in 1..MaxFlushRuns : PreprocessingDone(i)
    \/ \E i \in 1..MaxFlushRuns : PreprocessingFailed(i)
    \/ \E i \in 1..MaxFlushRuns : BackendWriteDone(i)
    \/ \E i \in 1..MaxFlushRuns : BackendWriteFailed(i)
    \/ \E i \in 1..MaxFlushRuns : FlushCallbacks(i)

SpecReport == Init /\ [][NextReport]_vars

\* The life cycles: two stores, transactions, nested transactions and combined
\* commits; the transactions write NewVal.
NextLife ==
    \/ \E s \in MainStores : Begin(s)
    \/ \E p \in TxIds : BeginNested(p)
    \/ \E t \in TxIds, k \in Keys : Put(t, k, NewVal)
    \/ \E c \in TxIds : CommitNested(c)
    \/ \E c \in TxIds : AbortNested(c)
    \/ \E t \in TxIds : CommitTop(t)
    \/ \E t \in TxIds : ConflictTop(t)
    \/ \E t \in TxIds : AbortTop(t)
    \/ \E args \in ArgLists : CommitCombined(args)
    \/ \E i \in 1..MaxFlushRuns : PreprocessingDone(i)
    \/ \E i \in 1..MaxFlushRuns : PreprocessingFailed(i)
    \/ \E i \in 1..MaxFlushRuns : BackendWriteDone(i)
    \/ \E i \in 1..MaxFlushRuns : BackendWriteFailed(i)
    \/ \E i \in 1..MaxFlushRuns : FlushCallbacks(i)

SpecLife == Init /\ [][NextLife]_vars

\* An indexed store on its own, for every index descriptor.
IxCfgs == [unique : BOOLEAN, multiEntry : BOOLEAN]

InitIx ==
    /\ InitProg([s \in AllStores |-> EmptyStore])
    /\ InitNest
    /\ \E cfg \in IxCfgs : InitIndex(cfg)
    /\ InitScanStore
    /\ InitSync
    /\ InitDb

NextIx ==
    \/ \E k \in PKeys, v \in IxVals : IxPut(k, v)
    \/ \E k \in PKeys : IxRemove(k)
    \/ IxTruncate
    \/ IxCommit
    \/ IxAbort
    \/ IxBegin
    \/ \E impl \in Impls, r \in Ranges : IxQuery(impl, r)

SpecIx == InitIx /\ [][NextIx]_vars

\* A store on its own, filled in any order and scanned.
InitScan ==
    /\ InitProg([s \in AllStores |-> EmptyStore])
    /\ InitNest
    /\ InitIndex([unique |-> FALSE, multiEntry |-> FALSE])
    /\ InitScanStore
    /\ InitSync
    /\ InitDb

NextScan ==
    \/ \E k \in ScanKeys, v \in Vals : ScPut(k, v)
    \/ \E k \in ScanKeys : ScRemove(k)
    \/ \E r \in AllowedRanges : ScScan(r)

SpecScan == InitScan /\ [][NextScan]_vars

\* convertKeyRange on its own.
NextConv ==
    \E a \in RangeArgs, o \in OptionArgs, l \in LimitArgs : Convert(a, o, l)

SpecConv == InitScan /\ [][NextConv]_vars

\* A Synchronizer on its own.
InitSy ==
    /\ InitProg([s \in AllStores |-> EmptyStore])
    /\ InitNest
    /\ InitIndex([unique |-> FALSE, multiEntry |-> FALSE])
    /\ InitScanStore
    /\ InitSync
    /\ InitDb

NextSy ==
    \/ \E kind \in FnKinds : Push(kind)
    \/ \E job \in JobIds : FnSettles(job)
    \/ \E job \in JobIds : Resume(job)

SpecSy == InitSy /\ [][NextSy]_vars

\* The Synchronizer with functions that terminate: a promise a function
\* returned settles, and the worker waiting for it is then resumed.
FairSy ==
    /\ WF_vars(\E job \in JobIds : FnSettles(job))
    /\ WF_vars(\E job \in JobIds : Resume(job))

SpecSyLive == InitSy /\ [][NextSy]_vars /\ FairSy

\* A JungleDB instance on a new or an existing database directory.
InitJungle ==
    \E dbVersion \in Versions, stored \in {0} \cup Versions, hasUpgradeFn \in BOOLEAN :
        jungle = NewJungleDB([version |-> stored, data |-> [t \in Tables |-> stored > 0]],
                             dbVersion, hasUpgradeFn)

InitJdb ==
    /\ InitProg([s \in AllStores |-> EmptyStore])
    /\ InitNest
    /\ InitIndex([unique |-> FALSE, multiEntry |-> FALSE])
    /\ InitScanStore
    /\ InitSync
    /\ InitJungle
    /\ InitFill

NextJdb ==
    \/ \E t \in Tables : CreateObjectStore(t)
    \/ \E t \in Tables, c \in UpgradeConditions : DeleteObjectStore(t, c)
    \/ Connect
    \/ UpgradeDone
    \/ UpgradeFails
    \/ Close

SpecJdb == InitJdb /\ [][NextJdb]_vars

\* A store of an existing database (version 1) that holds data and has no
\* index; the program of version 2 declares one.
InitFillStore ==
    /\ ixCfg \in IxCfgs
    /\ ixData \in [PKeys -> IxVals \cup {Absent}]
    /\ ixIndex = EmptyIndex
    /\ ixTx = FreshIxTx
    /\ ixRet = "none"
    /\ ixQ = [op |-> "none"]
    /\ \E c \in FillConditions :
          fill = [pc |-> "new", connects |-> 0, exists |-> FALSE, upgradeCondition |-> c,
                  storedVersion |-> 1, dbVersion |-> 2, filled |-> 0, before |-> EmptyIndex]

InitFillSpec ==
    /\ InitProg([s \in AllStores |-> EmptyStore])
    /\ InitNest
    /\ InitFillStore
    /\ InitScanStore
    /\ InitSync
    /\ InitJungleNew

NextFill ==
    \/ FillConnect
    \/ \E k \in PKeys, v \in IxVals : FillPut(k, v)
    \/ FillClose

SpecFill == InitFillSpec /\ [][NextFill]_vars

\* An empty index of any descriptor, called directly.
InitPixStore ==
    /\ ixCfg \in IxCfgs
    /\ ixData = [k \in PKeys |-> Absent]
    /\ ixIndex = EmptyIndex
    /\ ixTx = FreshIxTx
    /\ ixRet = "none"
    /\ ixQ = [op |-> "new", calls |-> 0]

InitPix ==
    /\ InitProg([s \in AllStores |-> EmptyStore])
    /\ InitNest
    /\ InitPixStore
    /\ InitScanStore
    /\ InitSync
    /\ InitDb

NextPix ==
    \/ \E k \in PKeys, v \in PutVals, old \in PutVals \cup {Absent} : PixPut(k, v, old)
    \/ \E k \in PKeys, old \in PutVals \cup {Absent} : PixRemove(k, old)

SpecPix == InitPix /\ [][NextPix]_vars

\* The constructor alone, on transactions in any state of any store.
CtorPool == {1, 2, 3}
CtorArgLists == UNION {[1..n -> CtorPool] : n \in 2..MaxCtorArgs}

InitCtor ==
    /\ backend = [s \in AllStores |-> EmptyStore]
    /\ stack = [s \in AllStores |-> << >>]
    /\ state \in [TxIds -> {"NONE", "OPEN", "COMMITTED"}]
    /\ \A t \in TxIds : state[t] = "NONE" <=> t \notin CtorPool
    /\ txStore \in [TxIds -> AllStores]
    /\ \A t \in TxIds \ CtorPool : txStore[t] = 1
    /\ parent = [t \in TxIds |-> NoTx]
    /\ modified = [t \in TxIds |-> EmptyMod]
    /\ removed = [t \in TxIds |-> {}]
    /\ nested \in [TxIds -> BOOLEAN]
    /\ \A t \in TxIds \ CtorPool : ~nested[t]
    /\ dependency = [t \in TxIds |-> FALSE]
    /\ commitRet = [t \in TxIds |-> "none"]
    /\ ctxTxs = << >>
    /\ flushable = {}
    /\ runs = << >>
    /\ flushLog = << >>
    /\ ctxResult = "none"
    /\ ctorArgs = << >>
    /\ ctorResult = "none"
    /\ snap = [t \in TxIds |-> EmptyStore]
    /\ base = [t \in TxIds |-> NoTx]
    /\ lastCommitted = [s \in AllStores |-> NoTx]
    /\ committedView = [s \in AllStores |-> EmptyStore]
    /\ lastWrite = [t \in TxIds |-> EmptyMod]
    /\ InitExt

NextCtor == \E txs \in CtorArgLists : ctorResult = "none" /\ NewCombinedTransaction(txs)

SpecCtor == InitCtor /\ [][NextCtor]_vars

\* ================================================================ properties
Participants == Range(ctxTxs)
Committed(t) == state[t] \in {"COMMITTED", "FLUSHED"}
OnStack(t) == t \in Range(stack[txStore[t]])
\* The deltas of t are part of what its store shows: t is in the committed
\* chain of its store or was flushed into the backend.
Visible(t) == OnStack(t) \/ Committed(t)
RunsAtRest == \A i \in 1..Len(runs) : runs[i].pc \in {"done", "failed"}
FlushFailed == \E i \in 1..Len(runs) : runs[i].pc = "failed"
CombinedSettled == ctxTxs # << >> /\ ctxResult \in {"true", "false", "threw"} /\ RunsAtRest

\* C1: after a combined commit has come to its end, either every participant
\* is COMMITTED and its deltas are visible in its store, or no participant's
\* deltas are visible and none is COMMITTED; never only some.
C1_CombinedAllOrNothing ==
    CombinedSettled =>
        \/ \A p \in Participants : Committed(p) /\ Visible(p)
        \/ \A p \in Participants : ~Committed(p) /\ ~Visible(p)

\* C3: when commit() of a combined transaction finds some participant not
\* committable, it returns false, every participant is aborted, and the
\* committed state of every store is what it was (a backend changes only by
\* taking in transactions of its store's chain, committed earlier).
C3_NotCommittableAbortsAll ==
    [][(ctxTxs = << >> /\ ctxTxs' # << >> /\ ~CtxIsCommittable(World, ctxTxs')) =>
          /\ ctxResult' = "false"
          /\ \A p \in Range(ctxTxs') : state'[p] = "ABORTED" /\ ~OnStack(p)'
          /\ \A s \in AllStores : StoreView(World', s) = StoreView(World, s)
          /\ \A s \in AllStores : backend'[s] = backend[s] \/ stack'[s] # stack[s]]_vars

\* Reached: a combined commit returned false and a participant that was
\* committable on its own, with changes of its own, is aborted.
C3_Witness ==
    /\ ctxResult = "false"
    /\ \E p \in Participants :
          /\ base[p] = lastCommitted[txStore[p]]
          /\ state[p] = "ABORTED"
    /\ \E q \in Participants : base[q] # lastCommitted[txStore[q]]

\* C4: commit() of a combined transaction returns true only when the backend
\* commit of every participant succeeded, and returns false when one failed.
C4_ResultReflectsBackendCommit ==
    /\ ctxResult = "true" => ~FlushFailed
    /\ (FlushFailed /\ ctxResult \notin {"none", "pending"}) => ctxResult = "false"

\* C5: after a preprocessing hook or the backend write of a combined flush
\* failed, every participant is ABORTED or CONFLICTED, none is COMMITTED and
\* no participant's deltas are visible in its store.
C5_FailedFlushAbortsAll ==
    (FlushFailed /\ RunsAtRest) =>
        \A p \in Participants :
            state[p] \in {"ABORTED", "CONFLICTED"} /\ ~Visible(p)

\* The rules a CombinedTransaction demands of its inputs, stated on the list.
DbOfArg(txs, i) == JungleDBOf(txStore[txs[i]])
RuleViolated(txs) ==
    \/ \E i \in 1..Len(txs) : state[txs[i]] # "OPEN"
    \/ \E i \in 1..Len(txs) : nested[txs[i]]
    \/ \E i, j \in 1..Len(txs) : i # j /\ txStore[txs[i]] = txStore[txs[j]]
    \/ \E i, j \in 1..Len(txs) :
          /\ DbOfArg(txs, i) # "null"
          /\ DbOfArg(txs, j) # "null"
          /\ DbOfArg(txs, i) # DbOfArg(txs, j)

\* C2: constructing a CombinedTransaction throws, leaving every input's state
\* and dependency unchanged, exactly when some input is not OPEN, some input
\* is nested, two inputs are of the same object store, or two inputs are of
\* different non-null databases (a null database goes with any); otherwise it
\* succeeds and every input has the dependency.
C2_ConstructorThrowsIffRuleViolated ==
    [][ctorResult' # "none" =>
          /\ ctorResult' = "threw" <=> RuleViolated(ctorArgs')
          /\ ctorResult' = "threw" => (state' = state /\ dependency' = dependency)
          /\ ctorResult' = "ok" =>
                /\ state' = state
                /\ \A t \in TxIds : dependency'[t] <=> t \in Range(ctorArgs')]_vars

\* Reached: a construction over open, unnested transactions of three different
\* stores throws, because two of the stores are of different databases, the
\* third being an in-memory store.
C2_Witness ==
    /\ ctorResult = "threw"
    /\ Len(ctorArgs) = 3
    /\ \A i \in 1..3 : state[ctorArgs[i]] = "OPEN" /\ ~nested[ctorArgs[i]]
    /\ {DbOfArg(ctorArgs, i) : i \in 1..3} = {"null", "db1", "db2"}

LiveNow(t) == Live(state, stack, t)

\* C6: a transaction reads its own writes: after put(k, v) get(k) is v and
\* after remove(k) get(k) is absent, whatever the parent holds.
C6_ReadYourWrites ==
    \A t \in TxIds, k \in Keys :
        (LiveNow(t) /\ lastWrite[t][k] # None) => TxGet(World, t, k) = lastWrite[t][k]

\* Reached: a transaction removed a key its parent holds, and another one
\* wrote a value over a different value of its parent.
C6_Witness ==
    /\ \E t \in TxIds, k \in Keys :
          /\ LiveNow(t) /\ lastWrite[t][k] = Absent /\ snap[t][k] # Absent
    /\ \E t \in TxIds, k \in Keys :
          /\ LiveNow(t) /\ lastWrite[t][k] \in Vals
          /\ snap[t][k] \notin {Absent, lastWrite[t][k]}

\* C7: an open transaction reads, for every key it did not write itself, the
\* value the store had when the transaction was created; neither the commit
\* of another transaction nor its flush changes that.
C7_SnapshotIsolation ==
    \A t \in TxIds, k \in Keys :
        (LiveNow(t) /\ lastWrite[t][k] = None) => TxGet(World, t, k) = snap[t][k]

\* Reached: an open transaction reads a key it did not write, and the store
\* has moved on to a different committed value of that key.
C7_Witness ==
    \E t \in TxIds, k \in Keys :
        /\ LiveNow(t) /\ lastWrite[t][k] = None
        /\ StoreGet(World, txStore[t], k) # snap[t][k]

\* C8: of the transactions created on the same committed state of a store at
\* most one is ever committed; the others can only be open, conflicted or
\* aborted, and none of them was told true.
Created(t) == state[t] # "NONE"
C8_AtMostOneCommitPerParent ==
    \A t, u \in TxIds :
        (/\ t # u /\ Created(t) /\ Created(u)
         /\ txStore[t] = txStore[u] /\ base[t] = base[u]
         /\ Committed(t)) =>
            /\ state[u] \in {"OPEN", "CONFLICTED", "ABORTED"}
            /\ commitRet[u] # "true"

\* Reached: three transactions of one committed state, one committed, one
\* conflicted, one aborted.
C8_Witness ==
    \E t, u, v \in TxIds :
        /\ base[t] = base[u] /\ base[u] = base[v]
        /\ Committed(t) /\ state[u] = "CONFLICTED" /\ state[v] = "ABORTED"

\* commit() of t found a conflict in this step.
ConflictStep(t) == state[t] = "OPEN" /\ state'[t] = "CONFLICTED"
OthersKeepTheirView(t) ==
    \A u \in TxIds \ {t} : LiveNow(u) => TxView(World', u) = TxView(World, u)

C10_CommittedStateIsRead ==
    \A s \in AllStores :
        /\ StoreView(World, s) = committedView[s]
        /\ \A t \in TxIds, k \in Keys :
              (/\ LiveNow(t) /\ txStore[t] = s /\ base[t] = lastCommitted[s]
               /\ lastWrite[t][k] = None) =>
                  TxGet(World, t, k) = committedView[s][k]

\* Reached: the last committed transaction is still in the chain, the backend
\* holds something else, and a transaction was created on the committed state.
C10_Witness ==
    \E t, c \in TxIds :
        /\ c = lastCommitted[1] /\ OnStack(c)
        /\ backend[1] # committedView[1]
        /\ LiveNow(t) /\ base[t] = c /\ lastWrite[t] = EmptyMod

\* The changes of state a transaction may make.
StateChanges ==
    {<<"NONE", "OPEN">>,
     <<"OPEN", "COMMITTED">>, <<"OPEN", "ABORTED">>, <<"OPEN", "CONFLICTED">>,
     <<"OPEN", "NESTED">>, <<"NESTED", "OPEN">>,
     <<"NESTED", "COMMITTED">>, <<"NESTED", "ABORTED">>, <<"NESTED", "CONFLICTED">>,
     <<"COMMITTED", "FLUSHED">>}

Buffer(t) == [modified |-> modified[t], removed |-> removed[t]]
C12_NestingProtectsParent ==
    [][\A p \in TxIds :
          /\ (state[p] = "NONE" /\ state'[p] # "NONE" /\ nested'[p]) =>
                /\ parent'[p] \in TxIds
                /\ state[parent'[p]] = "OPEN" /\ state'[parent'[p]] = "NESTED"
          /\ (state[p] = "NESTED" /\ state'[p] = "NESTED") => Buffer(p)' = Buffer(p)
          /\ (state[p] = "NESTED" /\ writeRet'[p] # writeRet[p]) =>
                writeRet'[p] = "threw" /\ state'[p] = "NESTED"
          /\ (\E c \in TxIds : /\ base[c] = p /\ nested[c]
                               /\ state[c] = "OPEN" /\ state'[c] = "ABORTED") =>
                /\ state[p] = "NESTED" /\ state'[p] = "OPEN"
                /\ Buffer(p)' = nestSave[p]]_vars

\* Reached: a parent with a put of its own is open again, with that buffer,
\* after its child was aborted; a write on the parent had been rejected.
C12_Witness ==
    \E p, c \in TxIds, k \in Keys :
        /\ base[c] = p /\ nested[c] /\ state[c] = "ABORTED"
        /\ state[p] = "OPEN" /\ writeRet[p] = "threw"
        /\ nestSave[p].modified[k] = NewVal /\ Buffer(p) = nestSave[p]

\* C13: when a child has committed into its parent and the parent commits,
\* the store shows what one transaction shows that applies the parent's
\* deltas, then the child's, in the order they were made, to the state the
\* parent was created on.
TopCommitStep(p) == ~nested[p] /\ state[p] = "OPEN" /\ state'[p] = "COMMITTED"
HoldersOf(s, key) ==
    {other \in PKeys \ {key} : s \in SecondaryKeys(ixCfg, IxTxGet(ixTx, ixData, other))}

\* The put of value under key would give a secondary key a second primary key.
GivesSecondPrimaryKey(key, value) ==
    \E s \in SecondaryKeys(ixCfg, value) : HoldersOf(s, key) # {}

YieldsKey(v, s) ==
    /\ v # Absent
    /\ IF ByKeyPath(v).arr
       THEN (IF ixCfg.multiEntry THEN s \in Range(ByKeyPath(v).ks) ELSE s = ArrKey)
       ELSE s \in Range(ByKeyPath(v).ks)

\* The primary keys whose committed value yields s.
KeysYielding(s) == {k \in PKeys : YieldsKey(ixData[k], s)}

\* C15: in every committed state a unique index maps each secondary key to at
\* most one primary key, and no two committed values yield the same key.
C15_UniqueIndexInvariant ==
    ixCfg.unique =>
        \A s \in SKeys : Len(ixIndex[s]) <= 1 /\ Cardinality(KeysYielding(s)) <= 1

\* A unique index holds two entries after a commit and every primary key has
\* a value.
C15_Witness ==
    /\ ixCfg.unique
    /\ ixRet = "committed"
    /\ Cardinality({s \in SKeys : ixIndex[s] # << >>}) >= 2
    /\ \A k \in PKeys : ixData[k] # Absent

NonConforming == CHOOSE v \in IxVals : ByKeyPath(v) = Undefined
AllKeys == <<1, ArrKey>>

\* The index entries the stored values should have: one per primary key and
\* secondary key the key's value yields.
ConformingEntries == {e \in PKeys \X SKeys : YieldsKey(ixData[e[1]], e[2])}

Queried == ixQ.op = "query"
InRange(s, r) == r[1] <= s /\ s <= r[2]

KeysInsideRange == {s \in SKeys : InRange(s, ixQ.range) /\ KeysYielding(s) # {}}
LeastInside == CHOOSE s \in KeysInsideRange : \A r \in KeysInsideRange : s <= r
GreatestInside == CHOOSE s \in KeysInsideRange : \A r \in KeysInsideRange : s >= r

\* A result holds the values of exactly the given primary keys.
ValuesOfExactly(result, ks) ==
    /\ result.ok
    /\ Len(result.vals) = Cardinality(ks)
    /\ Range(result.vals) = {ixData[k] : k \in ks}

\* C19: minKeys / maxKeys of a range are all primary keys whose secondary key
\* is the least / greatest inside the range, minValues / maxValues the values
\* of exactly those keys, and the results are empty iff no secondary key lies
\* inside the range.
C19_MinMaxOfRange ==
    Queried =>
        IF KeysInsideRange = {}
        THEN /\ ixQ.minKeys = {} /\ ixQ.maxKeys = {}
             /\ ValuesOfExactly(ixQ.minValues, {}) /\ ValuesOfExactly(ixQ.maxValues, {})
        ELSE /\ ixQ.minKeys = KeysYielding(LeastInside)
             /\ ixQ.maxKeys = KeysYielding(GreatestInside)
             /\ ValuesOfExactly(ixQ.minValues, ixQ.minKeys)
             /\ ValuesOfExactly(ixQ.maxValues, ixQ.maxKeys)

\* The entries of the store inside the scanned range, as key -> value.
StoredInside == {e \in Range(scStore) : Includes(scResult.range, e[1])}

InProgress == {j \in JobIds : sync.fn[j] = "pending"}
Pushed == {j \in JobIds : sync.kind[j] # "none"}

\* C21: the pushed functions are started in the order of the push calls, a
\* function is started only when the promise of the one before it has
\* settled, and no two of them are in progress at the same time.
C21_OneAtATimeInPushOrder ==
    /\ \A i \in 1..Len(sync.started) : sync.started[i] = i
    /\ \A i \in 2..Len(sync.started) : sync.fn[i - 1] \in {"fulfilled", "rejected", "thrown"}
    /\ Cardinality(InProgress) <= 1
    /\ Cardinality(sync.awaiting) <= 1

\* The second function runs after the first one settled, and a third one was
\* pushed while the second was running.
C21_Witness ==
    /\ sync.fn[1] \in {"fulfilled", "rejected"}
    /\ sync.fn[2] = "pending"
    /\ sync.queue = <<3>>

\* What the promise of push(fn) has to become for fn's kind.
OutcomeOf(kind) == IF kind = "resolves" THEN "resolved" ELSE "rejected"

\* C22: the promise returned by push(fn) is settled at most once and with the
\* outcome of fn; whenever no worker waits for a function, every pushed
\* function has been run and its promise settled exactly once, whatever the
\* functions before it did.
C22_SettlesOnceWithOwnOutcome ==
    /\ \A j \in JobIds :
          /\ sync.settles[j] <= 1
          /\ sync.settles[j] = 1 <=> sync.promise[j] # "pending"
          /\ sync.promise[j] # "pending" => sync.promise[j] = OutcomeOf(sync.kind[j])
          /\ sync.settles[j] = 1 => \E i \in 1..Len(sync.started) : sync.started[i] = j
    /\ sync.awaiting = {} =>
          /\ sync.queue = << >>
          /\ ~sync.working
          /\ \A j \in Pushed : sync.settles[j] = 1

\* A function that rejected and, queued behind it, one that threw were
\* followed by one that resolved: all three promises are settled, each with
\* its own outcome.
C22_Witness ==
    /\ sync.kind = <<"rejects", "throws", "resolves">>
    /\ sync.promise = <<"rejected", "rejected", "resolved">>
    /\ sync.started = <<1, 2, 3>>
    /\ ~sync.working

\* The registered stores, the registered backends and the pending deletions.
Structure(j) == <<j.objectStores, j.objectStoreBackends, j.objectStoresToDelete>>

\* C23: while the database is connected, createObjectStore and
\* deleteObjectStore throw and leave the registered stores, the registered
\* backends and the pending deletions unchanged; while it is not connected
\* they succeed, the store being registered and the deletion being scheduled.
C23_StructureFixedWhileConnected ==
    [][/\ \A t \in Tables : CreateObjectStore(t) =>
            IF jungle.connected
            THEN jungle'.ret = "threw" /\ Structure(jungle') = Structure(jungle)
            ELSE jungle'.ret = "ok" /\ t \in jungle'.objectStores
       /\ \A t \in Tables, c \in UpgradeConditions : DeleteObjectStore(t, c) =>
            IF jungle.connected
            THEN jungle'.ret = "threw" /\ Structure(jungle') = Structure(jungle)
            ELSE /\ jungle'.ret = "ok"
                 /\ jungle'.objectStoresToDelete =
                        Append(jungle.objectStoresToDelete,
                               [tableName |-> t, upgradeCondition |-> c])]_vars

\* A structural call threw on a connected database that has a store, a
\* backend and, after an upgrade-free connect, a pending deletion.
C23_Witness ==
    /\ jungle.connected
    /\ jungle.ret = "threw"
    /\ jungle.objectStores # {}
    /\ jungle.objectStoresToDelete # << >>

\* The connect of this instance found a stored version below dbVersion.
IsUpgrade(j) == j.dbVersion > j.storedBefore

\* Table t was scheduled for deletion under a condition that lets it be dropped.
ScheduledToDrop(j, t) ==
    \E i \in 1..Len(j.scheduled) :
        /\ j.scheduled[i].tableName = t
        /\ j.scheduled[i].upgradeCondition \in {"null", "true", "truthyCallback"}

\* connect() rejected although onUpgradeNeeded was never called.
ConnectThrew(j) == j.pc = "failed" /\ j.upgradeCalls = << >>

\* C24: once connect has run, a table has lost its data exactly if dbVersion
\* is greater than the stored version and the table was scheduled for
\* deletion with upgradeCondition null, true or a callback returning truthy;
\* a deletion scheduled with false or a falsy callback keeps the data, and
\* connect itself does not fail.
C24_DropsByUpgradeCondition ==
    jungle.db =>
        /\ \A t \in Tables :
               jungle.env.data[t] =
                   (jungle.dataBefore[t] /\ ~(IsUpgrade(jungle) /\ ScheduledToDrop(jungle, t)))
        /\ ~ConnectThrew(jungle)

\* C25: once connect has resolved or waits for onUpgradeNeeded, the callback
\* given to the constructor has been called exactly once if dbVersion is
\* greater than the stored version and not at all otherwise, with
\* (storedVersion, dbVersion), after the pending deletions were done and every
\* backend's init had run, and while connected was still false; a connect
\* that has ended has not ended without that call.
C25_UpgradeCallbackOnce ==
    (jungle.db /\ jungle.onUpgradeNeeded) =>
        /\ Len(jungle.upgradeCalls) = (IF IsUpgrade(jungle) THEN 1 ELSE 0)
        /\ \A i \in 1..Len(jungle.upgradeCalls) :
               LET call == jungle.upgradeCalls[i]
               IN /\ call.oldVersion = jungle.storedBefore
                  /\ call.newVersion = jungle.dbVersion
                  /\ call.toDelete = << >>
                  /\ call.inited = {jungle.objectStoreBackends[k].backend :
                                        k \in 1..Len(jungle.objectStoreBackends)}
                                   \cap call.inited
                  /\ ~call.connected
        /\ (jungle.connected => Len(jungle.upgradeCalls) = (IF IsUpgrade(jungle) THEN 1 ELSE 0))

\* The stored values that have the indexed attribute.
ConformingValues == {k \in PKeys : ixData[k] # Absent /\ ByKeyPath(ixData[k]) # Undefined}

\* The program has connected at least once to the store it declared the index on.
HasConnected == fill.connects >= 1

\* A connect of a program that has connected before: same version, same declarations.
Reconnect == FillConnect /\ HasConnected

LogAt(ev) == {j \in 1..Len(flushLog) : flushLog[j].ev = ev}
ReportedUpTo(j) ==
    {flushLog[i].tx : i \in {l \in 1..j : flushLog[l].ev \in {"false", "preprocessing"}}}

\* C27: a combined flush has been started exactly if every participant has
\* been reported flushable. A call that left a participant missing returned
\* false, and before the call that completed the set nothing else was done:
\* no hook was invoked, no participant was written or pruned. The call that
\* completed the set is the one that started the flush, and true is returned
\* only by it, once, after the write and every callback.
C27_FlushIffAllReported ==
    /\ (runs # << >>) <=> (ctxTxs # << >> /\ Participants \subseteq flushable)
    /\ \A j \in LogAt("false") :
          /\ ReportedUpTo(j) # Participants
          /\ \A i \in 1..j : flushLog[i].ev = "false"
    /\ \A j \in LogAt("preprocessing") :
          /\ ReportedUpTo(j) = Participants
          /\ ReportedUpTo(j - 1) # Participants
    /\ runs = << >> => \A p \in Participants :
                            state[p] # "FLUSHED" /\ (p \in flushable => OnStack(p))
    /\ Cardinality(LogAt("true")) <= 1
    /\ \A j \in LogAt("true") :
          /\ \E i \in 1..j : flushLog[i].ev = "preprocessing"
          /\ \A p \in Participants :
                /\ \E i \in 1..j : flushLog[i] = Event("callback", p)
                /\ \E i \in 1..j : flushLog[i].ev \in {"applySync", "function"}
                                   /\ flushLog[i].tx = p
                /\ ~OnStack(p)

\* Two of three participants were reported and the calls returned false;
\* the call for the last one made the flush and returned true.
C27_Witness ==
    /\ Cardinality(LogAt("false")) = 2
    /\ LogAt("true") # {}
    /\ flushLog[Len(flushLog)].ev = "true"

\* Positions of the log at which a participant's deltas were written.
WritesOf(p) == {j \in 1..Len(flushLog) : flushLog[j].ev \in {"applySync", "function"}
                                          /\ flushLog[j].tx = p}
CallbacksOf(p) == {j \in 1..Len(flushLog) : flushLog[j] = Event("callback", p)}
\* The combined flush that is at position pc.
FlushAt(pc) == \E i \in 1..Len(runs) : runs[i].pc = pc

\* C28: in a combined flush nothing is written (no backend transaction is
\* begun, no delta applied) before the preprocessing hooks have completed;
\* a callback is invoked only after every participant's deltas were written
\* and the backend transaction, if any, was committed; after a flush that
\* returned true each participant's callback has been invoked exactly once.
\* In the stores: while a participant stays at the bottom of its store's
\* stack the backend changes under it only in the write step, and a
\* participant leaves its store's stack only in the callback step.
C28_HooksThenWriteThenCallbacks ==
    /\ [](/\ \A j \in LogAt("beginTxn") \cup LogAt("applySync") \cup LogAt("function") :
               \E i \in 1..(j - 1) : flushLog[i].ev = "preprocessed"
          /\ \A j \in LogAt("callback") :
               /\ \A p \in Participants : \E i \in WritesOf(p) : i < j
               /\ \A i \in LogAt("beginTxn") : \E l \in LogAt("txnCommit") : i < l /\ l < j
          /\ LogAt("true") # {} =>
               \A p \in Participants : Cardinality(CallbacksOf(p)) = 1)
    /\ [][\A p \in Participants :
             /\ (OnStack(p) /\ Head(stack[txStore[p]]) = p
                   /\ p \in Range(stack'[txStore[p]])
                   /\ backend'[txStore[p]] # backend[txStore[p]]) => FlushAt("write")
             /\ (OnStack(p) /\ p \notin Range(stack'[txStore[p]])) => FlushAt("cb")]_vars

\* A flush of three participants that all wrote returned true: the hooks
\* completed, all were written and then each callback pruned its stack.
C28_Witness ==
    /\ LogAt("true") # {}
    /\ Cardinality(Participants) = 3
    /\ \A p \in Participants : modified[p] # EmptyMod /\ ~OnStack(p)
    /\ \A p \in Participants : Cardinality(CallbacksOf(p)) = 1

\* C30: the backend write of a combined flush begins at most one backend
\* write transaction and commits it once; applySync of every persistent
\* participant, and of no other, lies between the two; the functions of the
\* volatile participants, and of no other, run after the commit; with no
\* persistent participant no backend transaction is begun. After the write
\* every participant's store's backend holds the participant's state.
C30_OneBackendWriteTransaction ==
    /\ [](/\ Cardinality(LogAt("beginTxn")) <= 1
          /\ Cardinality(LogAt("txnCommit")) = Cardinality(LogAt("beginTxn"))
          /\ \A j \in LogAt("applySync") :
               /\ JungleDBOf(txStore[flushLog[j].tx]) # "null"
               /\ \E b \in LogAt("beginTxn"), c \in LogAt("txnCommit") : b < j /\ j < c
          /\ \A j \in LogAt("function") :
               /\ JungleDBOf(txStore[flushLog[j].tx]) = "null"
               /\ \A c \in LogAt("txnCommit") : c < j
          /\ (\A p \in Participants : JungleDBOf(txStore[p]) = "null") => LogAt("beginTxn") = {}
          /\ (FlushAt("cb") \/ FlushAt("done")) =>
               \A p \in Participants :
                   Cardinality(WritesOf(p)) = 1
                   /\ (flushLog[CHOOSE j \in WritesOf(p) : TRUE].ev = "applySync")
                          = (JungleDBOf(txStore[p]) # "null"))
    /\ [][\A i \in 1..Len(runs) : BackendWriteDone(i) =>
             \A p \in Participants : backend'[txStore[p]] = TxView(World, p)]_vars

\* The write of a flush with two persistent participants and a volatile
\* one that all changed their stores: one backend transaction with two
\* applySync, then the function.
C30_Witness ==
    /\ FlushAt("cb")
    /\ Cardinality(LogAt("beginTxn")) = 1
    /\ Cardinality(LogAt("applySync")) = 2
    /\ Cardinality(LogAt("function")) = 1
    /\ \A p \in Participants : modified[p] # EmptyMod

\* The transactions of store s that are still open were all opened on the
\* latest committed state.
EarlierClosed(s) ==
    \A t \in TxIds : (state[t] \in {"OPEN", "NESTED"} /\ txStore[t] = s) =>
                         base[t] = lastCommitted[s]

\* The transactions store s applies to its backend in this step, and their
\* positions on the stack.
FlushedNow(s) == {i \in 1..Len(stack[s]) : stack[s][i] \notin Range(stack'[s])}

IndexCoherent == \A s \in SKeys : Range(ixIndex[s]) = KeysYielding(s)

\* The primary keys other than key that the index maps secondary key s to.
OthersAt(ix, s, key) == Range(ix[s]) \ {key}

\* C31: on a unique index, put(k, v) (with the stored value of k as the old
\* value, on an index that agrees with the store) throws the uniqueness
\* violation exactly when a secondary key of v is mapped to another primary
\* key; a put of k with the secondary keys it already has succeeds and leaves
\* the index as it was.
C31_UniqueViolationExactly ==
    [][\A k \in PKeys, v \in PutVals :
          (PixPut(k, v, ixData[k]) /\ ixCfg.unique /\ IndexCoherent) =>
              /\ (ixRet' = "threw") <=>
                     (\E s \in SecondaryKeys(ixCfg, v) : OthersAt(ixIndex, s, k) # {})
              /\ (/\ ixData[k] # Absent
                  /\ SecondaryKeys(ixCfg, v) = SecondaryKeys(ixCfg, ixData[k]))
                     => (ixRet' = "ok" /\ ixIndex' = ixIndex)]_vars

\* ------------------------------------------------- the buffers of a transaction
\* C32: in every state the modified keys and the removed keys of every
\* transaction are disjoint, and a key the transaction has written is in the
\* set of its last operation: modified with the value put last, or removed.
C32_ModifiedRemovedDisjoint ==
    \A t \in TxIds, k \in Keys :
        /\ ~(modified[t][k] # None /\ k \in removed[t])
        /\ lastWrite[t][k] \in Vals =>
               (modified[t][k] = lastWrite[t][k] /\ k \notin removed[t])
        /\ lastWrite[t][k] = Absent =>
               (modified[t][k] = None /\ k \in removed[t])

\* A transaction removed a key, its child put the key and committed: the key
\* is now modified in the parent and no longer removed.
C32_Witness ==
    \E p, c \in TxIds, k \in Keys :
        /\ state[p] = "OPEN" /\ state[c] = "COMMITTED" /\ parent[c] = p
        /\ k \in nestSave[p].removed
        /\ modified[c][k] # None
        /\ modified[p][k] = modified[c][k]
        /\ k \notin removed[p]

\* ------------------------------------------------ LevelDBTools.convertKeyRange
Bounds(options) == <<options.gt, options.gte, options.lt, options.lte>>

\* C33: the options convertKeyRange produces for a KeyRange admit exactly the
\* keys inside the range (gt for an open lower bound, gte for a closed one, lt
\* and lte likewise, nothing for an undefined bound); another argument adds no
\* bound; limit is set iff the limit argument is not null, and other fields
\* of the options are kept.
C33_ConvertKeyRangeFaithful ==
    scResult.op = "convert" =>
        LET r == scResult.keyRange
            o == scResult.options
        IN /\ r.kr => /\ \A k \in ScanKeys : Satisfies(o, k) <=> KeyRangeIncludes(r, k)
                      /\ o.gt = (IF r.lowerOpen THEN r.lower ELSE Absent)
                      /\ o.gte = (IF r.lowerOpen THEN Absent ELSE r.lower)
                      /\ o.lt = (IF r.upperOpen THEN r.upper ELSE Absent)
                      /\ o.lte = (IF r.upperOpen THEN Absent ELSE r.upper)
           /\ ~r.kr => Bounds(o) = Bounds(scResult.given)
           /\ (o.limit # Absent) <=> (scResult.limit # None)
           /\ o.limit # Absent => o.limit = scResult.limit
           /\ o.keys = scResult.given.keys

\* A KeyRange with an open lower bound and no upper bound was converted with
\* a limit: the options hold gt and limit, and some key is outside.
C33_Witness ==
    /\ scResult.op = "convert"
    /\ scResult.keyRange.kr
    /\ scResult.keyRange.lowerOpen
    /\ scResult.keyRange.lower \in ScanKeys
    /\ scResult.keyRange.upper = Absent
    /\ scResult.options.gt = scResult.keyRange.lower
    /\ scResult.options.limit = 2
    /\ \E k \in ScanKeys : ~Satisfies(scResult.options, k)

\* C34: remove(k, oldValue) and put(k, v, oldValue) change only the
\* associations of k: every secondary key is mapped to the same other primary
\* keys before and after the call, whatever oldValue is.
C34_OnlyAssociationsOfKeyChange ==
    [][\A k \in PKeys, old \in PutVals \cup {Absent} :
          (PixRemove(k, old) \/ \E v \in PutVals : PixPut(k, v, old)) =>
              \A s \in SKeys : OthersAt(ixIndex', s, k) = OthersAt(ixIndex, s, k)]_vars

\* ----------------------------------------------------- JungleDB: connecting
\* C35: when the promise of a connect() call resolves, at once or after the
\* upgrade callback, connected is true and _initDB has run to its end; only
\* close() ends that.
C35_ResolvedMeansConnected ==
    [][/\ ((Connect /\ (jungle.db \/ jungle'.pc = "connected")) \/ UpgradeDone) =>
              (jungle'.connected /\ jungle'.pc = "connected")
       /\ (jungle.connected /\ ~jungle'.connected) => Close]_vars

\* C36: the stored version never decreases, and while the upgrade work of a
\* connect is unfinished or has failed the stored version is still the one
\* the connect found.
C36_VersionRaisedAfterUpgrade ==
    /\ jungle.env.version >= jungle.storedBefore
    /\ jungle.pc \in {"awaitUpgrade", "failed"} => jungle.env.version = jungle.storedBefore

\* ------------------------------------------------ PersistentIndex.applySync
\* The values the store holds once the open transaction is applied give every
\* secondary key at most one primary key.
ResultIsUnique ==
    \A s \in SKeys :
        Cardinality({k \in PKeys : s \in SecondaryKeys(ixCfg, IxTxGet(ixTx, ixData, k))}) <= 1

\* C37: on a unique index, applySync of a transaction whose result gives
\* every secondary key at most one primary key raises no uniqueness
\* violation.
C37_ApplySyncAcceptsUniqueResult ==
    [][(IxCommit /\ ixCfg.unique /\ ResultIsUnique) => ixRet' # "flushThrew"]_vars

\* -------------------------------------------------- Synchronizer: liveness
\* The function of job j was called and the promise push returned is settled.
Served(j) == j \in Range(sync.started) /\ sync.promise[j] # "pending"

\* C38: every pushed function is eventually executed and its push promise
\* eventually settles; whenever working is false the queue is empty, and at
\* most one worker loop is active at any time.
C38_EveryJobServed ==
    /\ [](~sync.working => sync.queue = << >>)
    /\ [](Cardinality(sync.awaiting) <= 1 /\ (sync.awaiting # {} => sync.working))
    /\ \A j \in JobIds : (sync.kind[j] # "none") ~> Served(j)

\* Every function that can be pushed was pushed and has resolved, the last
\* of them was started from the queue, and the worker has ended.
C38_Witness ==
    /\ \A j \in JobIds : sync.kind[j] = "resolves" /\ Served(j) /\ sync.fn[j] = "fulfilled"
    /\ ~sync.working
    /\ sync.queue = << >>

\* ------------------------------------------------- CombinedTransaction: once
\* The flushes of the CombinedTransaction that have written to the backend.
WritesDone == {i \in 1..Len(runs) : runs[i].pc \in {"cb", "done"}}

\* C39: the combined backend write is executed at most once and the cleanup
\* callback of each participant is invoked at most once, however the stores
\* report their transactions.
C39_FlushedAtMostOnce ==
    /\ Cardinality(WritesDone) <= 1
    /\ \A p \in Participants : Cardinality(CallbacksOf(p)) <= 1

\* ---------------------------------------------- isConsistent: input order
\* The lists that hold the elements of txs in another order.
Reorderings(txs) ==
    {[i \in 1..Len(txs) |-> txs[p[i]]] :
        p \in {q \in [1..Len(txs) -> 1..Len(txs)] :
                  \A i, j \in 1..Len(txs) : q[i] = q[j] => i = j}}

\* C40: isConsistent gives the same result for every order of the list the
\* constructor was given.
C40_ConsistencyIgnoresOrder ==
    ctorResult # "none" =>
        \A txs \in Reorderings(ctorArgs) : IsConsistent(World, txs) <=> ctorResult = "ok"

\* A list that starts with the transaction of an in-memory store, followed
\* by those of two stores of one database, was accepted.
C40_Witness ==
    /\ ctorResult = "ok"
    /\ Len(ctorArgs) = 3
    /\ DbOfArg(ctorArgs, 1) = "null"
    /\ DbOfArg(ctorArgs, 2) # "null"
    /\ DbOfArg(ctorArgs, 3) # "null"

====
